---- MODULE Spec2Model ----
(***************************************************************************)
(* Provider research system: the record store (ProviderDatabaseManager),   *)
(* the identity resolver (ProviderWebResearcher.check_duplicate), the      *)
(* semantic matcher and the orchestrator's query state machine.            *)
(*                                                                         *)
(* Strings are sequences of one-character strings, so that lower-casing,   *)
(* substring search, digit filtering and word splitting are computed as    *)
(* the code computes them.  SQL NULL / Python None is the value NULL.      *)
(* Scores and confidences are integers: confidence in hundredths (95 is    *)
(* 0.95), similarity ratios in ten-thousandths.                            *)
(***************************************************************************)
EXTENDS Integers, Sequences, FiniteSets, TLC

\* ------------------------------------------------------------------------
\* Bounds of the model
\* ------------------------------------------------------------------------
MaxRecords == 2
MaxHistory == 2
MaxQueries == 2
MaxUrls == 2
MaxTurns == 2
MaxProviders == 2
MaxClients == 2
MaxCandidates == 2
MaxLocations == 2

\* ------------------------------------------------------------------------
\* Strings
\* ------------------------------------------------------------------------
NULL == <<"<null>">>

\* Python truthiness of an optional string: None and '' are both falsy
Truthy(s) == s # NULL /\ s # <<>>

LowerChar(c) ==
    CASE c = "A" -> "a"
      [] c = "B" -> "b"
      [] c = "C" -> "c"
      [] c = "D" -> "d"
      [] c = "M" -> "m"
      [] c = "N" -> "n"
      [] c = "Y" -> "y"
      [] OTHER -> c

\* str.lower()
Lower(s) == [i \in 1..Len(s) |-> LowerChar(s[i])]

\* Python `sub in s` / SQL `s LIKE '%sub%'` on non-null strings
Contains(sub, s) ==
    \E i \in 0..(Len(s) - Len(sub)) : SubSeq(s, i + 1, i + Len(sub)) = sub

\* SQL `col ILIKE '%pat%'`: NULL column never matches
ILike(col, pat) == col # NULL /\ Contains(Lower(pat), Lower(col))

IsDigit(c) == c \in {"0", "1", "2", "3", "4", "5", "6", "7", "8", "9"}

RECURSIVE DigitsOnly(_)
\* re.sub(r'[^\d]', '', s)
DigitsOnly(s) ==
    IF s = <<>> THEN <<>>
    ELSE IF IsDigit(Head(s)) THEN <<Head(s)>> \o DigitsOnly(Tail(s))
    ELSE DigitsOnly(Tail(s))

RECURSIVE SplitWords(_, _)
\* The words of s (maximal runs of non-space characters); cur is the word
\* being read.
SplitWords(s, cur) ==
    IF s = <<>> THEN (IF cur = <<>> THEN {} ELSE {cur})
    ELSE IF Head(s) = " "
         THEN (IF cur = <<>> THEN {} ELSE {cur}) \cup SplitWords(Tail(s), <<>>)
         ELSE SplitWords(Tail(s), Append(cur, Head(s)))

Words(s) == SplitWords(Lower(s), <<>>)

\* Sequence helpers
Take(s, n) == SubSeq(s, 1, IF n < Len(s) THEN n ELSE Len(s))

Range(s) == {s[i] : i \in 1..Len(s)}

Max2(a, b) == IF a >= b THEN a ELSE b

\* ------------------------------------------------------------------------
\* State
\* ------------------------------------------------------------------------
VARIABLES
    providers,    \* the providers table: rows in insertion order
    nextId,       \* next primary key handed out (stands for uuid4)
    history,      \* the provider_history table: entries in insertion order
    uwh,          \* the update_provider_with_history call in flight
    uwhLog,       \* per history entry written by such a call: was the field written
    changeOps,    \* per provider id: record-change operations completed
    storeOut,     \* outcome of the last store call
    dedupIn,      \* check_duplicate: the call's arguments and the researcher's mode
    dedupOut,     \* check_duplicate: what the call returned or raised
    config,       \* the orchestrator's auto_save flag and whether it has an llm_client
    orch,         \* the process_query call in flight, or the last one: stage, trace
    result,       \* the OrchestrationResult of the last finished process_query
    last_result,  \* self.last_result, mirrored into the interpreter
    queries       \* process_query calls started

storeVars == <<providers, nextId, history, uwh, uwhLog, changeOps, storeOut>>

dedupVars == <<dedupIn, dedupOut>>

orchVars == <<config, orch, result, last_result, queries>>

nonStoreVars == <<dedupVars, orchVars>>

vars == <<storeVars, dedupVars, orchVars>>

\* ------------------------------------------------------------------------
\* Record store: ProviderDatabaseManager
\* ------------------------------------------------------------------------
HIGH_CONFIDENCE_THRESHOLD == 8500
MEDIUM_CONFIDENCE_THRESHOLD == 7000
LOW_CONFIDENCE_THRESHOLD == 5000

ProviderIds == 1..MaxRecords

\* Columns that update_provider / update_provider_with_history are used on
Columns == {"legal_name", "npi", "phone", "parent_organization"}

\* A TEXT[] column that is NULL (psycopg2 hands back None, not a list)
NullArray == <<NULL>>

\* psycopg2 RealDictCursor row -> dict
Row(id, npi, legal_name, dba_names, phone, parent, full, city, state) ==
    [id |-> id, npi |-> npi, legal_name |-> legal_name, dba_names |-> dba_names,
     phone |-> phone, parent_organization |-> parent,
     address_full |-> full, address_city |-> city, address_state |-> state]

\* provider_data dictionaries handed to add_provider; a missing key reads as
\* None through dict.get
Data(npi, legal_name, phone, parent, address, city, state) ==
    [npi |-> npi, legal_name |-> legal_name, dba_names |-> NullArray,
     phone |-> phone,
     parent_organization |-> parent, address |-> address, city |-> city,
     state |-> state]

n_ab == <<"A", "b", " ", "c">>
n_ac == <<"a", "c">>
n_bd == <<"B", "d">>
n_my == <<"m", "y">>
MA == <<"M", "A">>
NY == <<"N", "Y">>
Boston == <<"B", "o", "s">>
Albany == <<"A", "l", "b">>
ph_61 == <<"(", "6", ")", "1">>
ph_61b == <<"6", "-", "1">>
ph_72 == <<"7", "2">>
npi_1 == <<"1">>
npi_2 == <<"2">>
addr_1 == <<"1", " ", "m">>
addr_1s == <<"1", " ", "m", " ", "#", "2">>

Catalog ==
    { Data(npi_1, n_ab, ph_61, n_bd, addr_1, Boston, MA),
      Data(npi_1, n_ac, ph_72, NULL, addr_1s, Albany, NY),
      Data(npi_2, n_ac, NULL, NULL, NULL, Boston, MA),
      Data(NULL, n_ab, ph_61b, NULL, addr_1s, Boston, MA),
      Data(NULL, n_bd, NULL, n_ab, NULL, NULL, NULL) }

\* SearchResult dataclass
SearchResult(match_type, match_score, provider, confidence) ==
    [match_type |-> match_type, match_score |-> match_score,
     provider |-> provider, confidence |-> confidence]

\* The optional WHERE clauses shared by the name tiers
StateFilter(r, state) == ~Truthy(state) \/ r.address_state = state
CityFilter(r, city) == ~Truthy(city) \/ ILike(r.address_city, city)
ParentFilter(r, parent_org) ==
    ~Truthy(parent_org) \/ ILike(r.parent_organization, parent_org)

\* dba_names::text ILIKE %q%: some element of the array contains q (the
\* braces, quotes and commas of the array text are outside the alphabet)
DbaILike(dba_names, q) ==
    /\ dba_names # NullArray
    /\ \E i \in 1..Len(dba_names) : ILike(dba_names[i], q)

_search_by_npi(rows, npi) ==
    LET hits == SelectSeq(rows, LAMBDA r : r.npi # NULL /\ r.npi = npi)
    IN  [i \in 1..Len(hits) |-> SearchResult("exact_npi", 10000, hits[i], 100)]

_search_by_phone(rows, phone) ==
    LET phone_normalized == DigitsOnly(phone)
        hits == SelectSeq(rows, LAMBDA r :
                    r.phone # NULL /\ DigitsOnly(r.phone) = phone_normalized)
    IN  [i \in 1..Len(hits) |-> SearchResult("exact_phone", 10000, hits[i], 95)]

_search_exact(rows, query, state, city, parent_org) ==
    LET hits == SelectSeq(rows, LAMBDA r :
                    /\ \/ ILike(r.legal_name, query)
                       \/ ILike(r.parent_organization, query)
                       \/ DbaILike(r.dba_names, query)
                    /\ StateFilter(r, state)
                    /\ CityFilter(r, city)
                    /\ ParentFilter(r, parent_org))
    IN  [i \in 1..Len(hits) |-> SearchResult("exact", 10000, hits[i], 95)]

\* to_tsvector(legal_name || ' ' || COALESCE(parent_organization, ''))
\*   @@ plainto_tsquery(query): every word of the query is a word of the
\* document (stemming and stop words belong to the storage engine)
FullTextDoc(r) ==
    r.legal_name \o <<" ">>
        \o (IF r.parent_organization = NULL THEN <<>> ELSE r.parent_organization)

_search_fulltext(rows, query, state, city) ==
    LET hits == SelectSeq(rows, LAMBDA r :
                    /\ Words(query) # {}
                    /\ Words(query) \subseteq Words(FullTextDoc(r))
                    /\ StateFilter(r, state)
                    /\ CityFilter(r, city))
    IN  [i \in 1..Len(hits) |-> SearchResult("fulltext", 10000, hits[i], 85)]

\* difflib.SequenceMatcher(None, a, b).ratio(), in ten-thousandths
RECURSIVE RunLen(_, _, _, _)
RunLen(a, b, i, j) ==
    IF i > Len(a) \/ j > Len(b) THEN 0
    ELSE IF a[i] # b[j] THEN 0
    ELSE 1 + RunLen(a, b, i + 1, j + 1)

\* find_longest_match: the longest common block, the earliest in a among the
\* longest, the earliest in b among those
LongestMatch(a, b) ==
    LET runs == {<<i, j, RunLen(a, b, i, j)>> : i \in 1..Len(a), j \in 1..Len(b)}
    IN  CHOOSE r \in runs : \A o \in runs :
            \/ r[3] > o[3]
            \/ r[3] = o[3] /\ r[1] < o[1]
            \/ r[3] = o[3] /\ r[1] = o[1] /\ r[2] <= o[2]

RECURSIVE MatchingChars(_, _)
\* get_matching_blocks: the longest block, then the same to its left and right
MatchingChars(a, b) ==
    IF a = <<>> \/ b = <<>> THEN 0
    ELSE LET m == LongestMatch(a, b)
         IN  IF m[3] = 0 THEN 0
             ELSE m[3]
                  + MatchingChars(SubSeq(a, 1, m[1] - 1), SubSeq(b, 1, m[2] - 1))
                  + MatchingChars(SubSeq(a, m[1] + m[3], Len(a)),
                                  SubSeq(b, m[2] + m[3], Len(b)))

Ratio(a, b) ==
    IF Len(a) + Len(b) = 0 THEN 10000
    ELSE (2 * MatchingChars(a, b) * 10000) \div (Len(a) + Len(b))

_score_to_confidence(score) ==
    IF score >= HIGH_CONFIDENCE_THRESHOLD THEN 90
    ELSE IF score >= MEDIUM_CONFIDENCE_THRESHOLD THEN 70
    ELSE 50

FuzzyScore(r, query) ==
    LET name_score == Ratio(Lower(query), Lower(r.legal_name))
        parent_score == IF Truthy(r.parent_organization)
                        THEN Ratio(Lower(query), Lower(r.parent_organization))
                        ELSE 0
    IN  Max2(name_score, parent_score)

RECURSIVE SortByScore(_)
\* list.sort(key=match_score, reverse=True): stable, highest score first
SortByScore(results) ==
    IF results = <<>> THEN <<>>
    ELSE LET top == CHOOSE i \in 1..Len(results) :
                        /\ \A k \in 1..Len(results) :
                               results[i].match_score >= results[k].match_score
                        /\ \A k \in 1..(i - 1) :
                               results[k].match_score < results[i].match_score
             rest == [k \in 1..(Len(results) - 1) |->
                        IF k < top THEN results[k] ELSE results[k + 1]]
         IN  <<results[top]>> \o SortByScore(rest)

\* _search_fuzzy without the final sort: matches in the order of the rows
_search_fuzzy_unsorted(rows, query, state, city, parent_org) ==
    LET cand == SelectSeq(rows, LAMBDA r :
                    /\ StateFilter(r, state)
                    /\ CityFilter(r, city)
                    /\ ParentFilter(r, parent_org))
        kept == SelectSeq(cand, LAMBDA r :
                    FuzzyScore(r, query) >= LOW_CONFIDENCE_THRESHOLD)
    IN  [i \in 1..Len(kept) |->
            SearchResult("fuzzy", FuzzyScore(kept[i], query), kept[i],
                         _score_to_confidence(FuzzyScore(kept[i], query)))]

\* _search_fuzzy without the LOW_CONFIDENCE_THRESHOLD floor
_search_fuzzy_no_floor(rows, query, state, city, parent_org) ==
    LET cand == SelectSeq(rows, LAMBDA r :
                    /\ StateFilter(r, state)
                    /\ CityFilter(r, city)
                    /\ ParentFilter(r, parent_org))
    IN  SortByScore([i \in 1..Len(cand) |->
            SearchResult("fuzzy", FuzzyScore(cand[i], query), cand[i],
                         _score_to_confidence(FuzzyScore(cand[i], query)))])

_search_fuzzy(rows, query, state, city, parent_org) ==
    LET cand == SelectSeq(rows, LAMBDA r :
                    /\ StateFilter(r, state)
                    /\ CityFilter(r, city)
                    /\ ParentFilter(r, parent_org))
        kept == SelectSeq(cand, LAMBDA r :
                    FuzzyScore(r, query) >= LOW_CONFIDENCE_THRESHOLD)
    IN  SortByScore([i \in 1..Len(kept) |->
            SearchResult("fuzzy", FuzzyScore(kept[i], query), kept[i],
                         _score_to_confidence(FuzzyScore(kept[i], query)))])

_list_providers(rows, state, city, parent_org, limit) ==
    LET hits == SelectSeq(rows, LAMBDA r :
                    /\ StateFilter(r, state)
                    /\ CityFilter(r, city)
                    /\ ParentFilter(r, parent_org))
    IN  [i \in 1..Len(Take(hits, limit)) |-> SearchResult("list", 5000, hits[i], 50)]

\* The cascade with the phone tier tried before the identifier tier
search_phone_first(rows, query, state, city, npi, phone, parent_organization, fuzzy, limit) ==
    IF Truthy(phone) /\ _search_by_phone(rows, phone) # <<>>
    THEN Take(_search_by_phone(rows, phone), limit)
    ELSE IF Truthy(npi) /\ _search_by_npi(rows, npi) # <<>>
    THEN Take(_search_by_npi(rows, npi), limit)
    ELSE IF Truthy(query)
            /\ _search_exact(rows, query, state, city, parent_organization) # <<>>
    THEN Take(_search_exact(rows, query, state, city, parent_organization), limit)
    ELSE IF Truthy(query) /\ _search_fulltext(rows, query, state, city) # <<>>
    THEN Take(_search_fulltext(rows, query, state, city), limit)
    ELSE IF Truthy(query) /\ fuzzy
    THEN Take(_search_fuzzy(rows, query, state, city, parent_organization), limit)
    ELSE _list_providers(rows, state, city, parent_organization, limit)

\* ProviderDatabaseManager.search: the lookup cascade, each tier returning
\* early when it yields a row
search(rows, query, state, city, npi, phone, parent_organization, fuzzy, limit) ==
    IF Truthy(npi) /\ _search_by_npi(rows, npi) # <<>>
    THEN Take(_search_by_npi(rows, npi), limit)
    ELSE IF Truthy(phone) /\ _search_by_phone(rows, phone) # <<>>
    THEN Take(_search_by_phone(rows, phone), limit)
    ELSE IF Truthy(query)
            /\ _search_exact(rows, query, state, city, parent_organization) # <<>>
    THEN Take(_search_exact(rows, query, state, city, parent_organization), limit)
    ELSE IF Truthy(query) /\ _search_fulltext(rows, query, state, city) # <<>>
    THEN Take(_search_fulltext(rows, query, state, city), limit)
    ELSE IF Truthy(query) /\ fuzzy
    THEN Take(_search_fuzzy(rows, query, state, city, parent_organization), limit)
    ELSE _list_providers(rows, state, city, parent_organization, limit)

HasNpi(rows, npi) == npi # NULL /\ \E i \in 1..Len(rows) : rows[i].npi = npi

\* to_pg_array: None and [] both become NULL
to_pg_array(items) == IF items = NullArray \/ items = <<>> THEN NullArray ELSE items

\* add_provider that replaces the row of a conflicting npi: the old row is
\* deleted and the new one gets a fresh id
add_provider_replacing(rows, newId, d) ==
    IF d.legal_name = NULL
    THEN [rows |-> rows, id |-> 0, raised |-> TRUE, inserted |-> FALSE]
    ELSE [rows |-> Append(SelectSeq(rows, LAMBDA r : ~(d.npi # NULL /\ r.npi = d.npi)),
                          Row(newId, d.npi, d.legal_name,
                              to_pg_array(d.dba_names), d.phone,
                              d.parent_organization, d.address,
                              d.city, d.state)),
          id |-> newId, raised |-> FALSE, inserted |-> TRUE]

\* add_provider as a plain INSERT, without the ON CONFLICT (npi) clause and
\* with no unique index to stop it
add_provider_plain_insert(rows, newId, d) ==
    IF d.legal_name = NULL
    THEN [rows |-> rows, id |-> 0, raised |-> TRUE, inserted |-> FALSE]
    ELSE [rows |-> Append(rows, Row(newId, d.npi, d.legal_name,
                                    to_pg_array(d.dba_names), d.phone,
                                    d.parent_organization, d.address,
                                    d.city, d.state)),
          id |-> newId, raised |-> FALSE, inserted |-> TRUE]

\* ProviderDatabaseManager.add_provider: INSERT ... ON CONFLICT (npi) DO UPDATE
\* SET legal_name = EXCLUDED.legal_name ... RETURNING id.  The result holds
\* the table afterwards, the id returned and whether the call raised.
add_provider(rows, newId, d) ==
    IF d.legal_name = NULL
    THEN [rows |-> rows, id |-> 0, raised |-> TRUE, inserted |-> FALSE]
    ELSE IF HasNpi(rows, d.npi)
    THEN LET i == CHOOSE k \in 1..Len(rows) : rows[k].npi = d.npi
         IN  [rows |-> [rows EXCEPT ![i].legal_name = d.legal_name],
              id |-> rows[i].id, raised |-> FALSE, inserted |-> FALSE]
    ELSE [rows |-> Append(rows, Row(newId, d.npi, d.legal_name,
                                    to_pg_array(d.dba_names), d.phone,
                                    d.parent_organization, d.address,
                                    d.city, d.state)),
          id |-> newId, raised |-> FALSE, inserted |-> TRUE]

RowIndex(rows, id) == {i \in 1..Len(rows) : rows[i].id = id}

\* The constraints an UPDATE of one column can violate: npi UNIQUE,
\* legal_name NOT NULL
UpdateViolates(rows, id, col, value) ==
    \/ col = "legal_name" /\ value = NULL
    \/ col = "npi" /\ value # NULL
         /\ \E i \in 1..Len(rows) : rows[i].id # id /\ rows[i].npi = value

\* UPDATE providers SET col = value WHERE id = ...
UpdateRow(rows, id, col, value) ==
    [i \in 1..Len(rows) |->
        IF rows[i].id = id THEN [rows[i] EXCEPT ![col] = value] ELSE rows[i]]

\* ProviderDatabaseManager.update_provider
update_provider(rows, id, col, value) ==
    IF RowIndex(rows, id) # {} /\ UpdateViolates(rows, id, col, value)
    THEN [rows |-> rows, ok |-> FALSE, raised |-> TRUE]
    ELSE [rows |-> UpdateRow(rows, id, col, value),
          ok |-> RowIndex(rows, id) # {}, raised |-> FALSE]

\* ProviderDatabaseManager.delete_provider: provider_history.provider_id
\* REFERENCES providers(id) without ON DELETE CASCADE, so a provider that has
\* history cannot be deleted
delete_provider(rows, hist, id) ==
    IF RowIndex(rows, id) # {} /\ \E k \in 1..Len(hist) : hist[k].provider_id = id
    THEN [rows |-> rows, ok |-> FALSE, raised |-> TRUE]
    ELSE [rows |-> SelectSeq(rows, LAMBDA r : r.id # id),
          ok |-> RowIndex(rows, id) # {}, raised |-> FALSE]

HistoryEntry(id, provider_id, change_type, field_name, old_value, new_value, effective_date, recorded_at) ==
    [id |-> id, provider_id |-> provider_id, change_type |-> change_type,
     field_name |-> field_name, old_value |-> old_value, new_value |-> new_value,
     effective_date |-> effective_date, recorded_at |-> recorded_at]

\* datetime.utcnow() when the entry with this id is written: later than any
\* effective date a caller passes
Now(hid) == 10 + hid

\* record_history as an upsert that keeps one entry per provider and field
record_history_overwrite(hist, rows, provider_id, change_type, field_name, old_value, new_value, effective_date) ==
    IF RowIndex(rows, provider_id) = {}
    THEN [hist |-> hist, id |-> 0, raised |-> TRUE]
    ELSE LET same == {k \in 1..Len(hist) :
                        /\ hist[k].provider_id = provider_id
                        /\ hist[k].field_name = field_name}
             hid == Len(hist) + 1
             e == HistoryEntry(hid, provider_id, change_type, field_name,
                               old_value, new_value,
                               IF effective_date = 0 THEN Now(hid)
                               ELSE effective_date,
                               Now(hid))
         IN  IF same = {}
             THEN [hist |-> Append(hist, e), id |-> hid, raised |-> FALSE]
             ELSE [hist |-> [hist EXCEPT ![CHOOSE k \in same : TRUE] = e],
                   id |-> hid, raised |-> FALSE]

\* ProviderDatabaseManager.record_history: one INSERT into provider_history;
\* the foreign key rejects an unknown provider
record_history(hist, rows, provider_id, change_type, field_name, old_value, new_value, effective_date) ==
    IF RowIndex(rows, provider_id) = {}
    THEN [hist |-> hist, id |-> 0, raised |-> TRUE]
    ELSE LET hid == Len(hist) + 1
         IN  [hist |-> Append(hist,
                    HistoryEntry(hid, provider_id, change_type, field_name,
                                 old_value, new_value,
                                 IF effective_date = 0 THEN Now(hid)
                                 ELSE effective_date,
                                 Now(hid))),
              id |-> hid, raised |-> FALSE]

\* ORDER BY effective_date DESC, recorded_at DESC
Newer(e, f) ==
    \/ e.effective_date > f.effective_date
    \/ e.effective_date = f.effective_date /\ e.recorded_at > f.recorded_at

RECURSIVE OrderHistory(_)
OrderHistory(entries) ==
    IF entries = {} THEN <<>>
    ELSE LET first == CHOOSE e \in entries :
                          \A f \in entries \ {e} : Newer(e, f)
         IN  <<first>> \o OrderHistory(entries \ {first})

\* ProviderDatabaseManager.get_provider_history
get_provider_history(hist, provider_id) ==
    OrderHistory({hist[k] : k \in {j \in 1..Len(hist) :
                                        hist[j].provider_id = provider_id}})

\* ------------------------------------------------------------------------
\* Store calls made directly by a client of ProviderDatabaseManager
\* ------------------------------------------------------------------------
q_ab == <<"a", "b">>
q_c == <<"c">>
q_cab == <<"c", " ", "a", "b">>
q_ad == <<"a", "d">>
q_acd == <<"a", "c", "d">>
npi_9 == <<"9">>
ph_9 == <<"9">>

Idle == [pc |-> "idle"]

NoCall == [pc |-> "none"]

\* The argument tuples search is called with
SearchCalls ==
    { [query |-> q, state |-> NULL, city |-> NULL, npi |-> n, phone |-> ph,
       parent_organization |-> NULL, fuzzy |-> TRUE, limit |-> 10] :
        q \in {NULL, q_ab, q_cab}, n \in {NULL, npi_1, npi_9},
        ph \in {NULL, ph_61b} }
    \cup
    { [query |-> q, state |-> st, city |-> NULL, npi |-> n, phone |-> NULL,
       parent_organization |-> po, fuzzy |-> fz, limit |-> 1] :
        q \in {<<>>, q_ad}, st \in {NULL, MA},
        n \in {NULL, npi_2}, po \in {NULL, n_bd}, fz \in BOOLEAN }
    \cup
    { [query |-> q_acd, state |-> NULL, city |-> NULL, npi |-> NULL,
       phone |-> NULL, parent_organization |-> NULL, fuzzy |-> TRUE,
       limit |-> l] : l \in {1, 10} }

\* The changes record_history / update_provider_with_history are called with;
\* effective_date 0 stands for "not given"
Changes ==
    { [field_name |-> "legal_name", change_type |-> "name_change",
       new_value |-> n_bd, effective_date |-> 1],
      [field_name |-> "npi", change_type |-> "npi_change",
       new_value |-> npi_2, effective_date |-> 0] }

\* The provider_data a client records changes for
HistoryCatalog ==
    { Data(npi_1, n_ab, ph_61, n_bd, addr_1, Boston, MA),
      Data(npi_2, n_ac, NULL, NULL, NULL, Boston, MA) }

NoCallInFlight == uwh.pc = "idle"

\* psycopg2.OperationalError: the storage is unreachable; nothing is written
StoreUnreachable(op) ==
    /\ NoCallInFlight
    /\ storeOut' = [op |-> op, outcome |-> "raise"]
    /\ UNCHANGED <<providers, nextId, history, uwh, uwhLog, changeOps>>
    /\ UNCHANGED nonStoreVars

Search(a) ==
    /\ NoCallInFlight
    /\ storeOut' = [op |-> "search", outcome |-> "ok", args |-> a,
                    table |-> providers,
                    results |-> search(providers, a.query, a.state, a.city,
                                       a.npi, a.phone, a.parent_organization,
                                       a.fuzzy, a.limit)]
    /\ UNCHANGED <<providers, nextId, history, uwh, uwhLog, changeOps>>
    /\ UNCHANGED nonStoreVars

AddProvider(d) ==
    /\ NoCallInFlight
    /\ LET r == add_provider(providers, nextId, d)
       IN  /\ r.inserted => nextId <= MaxRecords
           /\ providers' = r.rows
           /\ nextId' = IF r.inserted THEN nextId + 1 ELSE nextId
           /\ storeOut' = [op |-> "add_provider",
                           outcome |-> IF r.raised THEN "raise" ELSE "ok",
                           data |-> d, id |-> r.id, table |-> providers]
    /\ UNCHANGED <<history, uwh, uwhLog, changeOps>>
    /\ UNCHANGED nonStoreVars

UpdateProvider(id, col, value) ==
    /\ NoCallInFlight
    /\ LET r == update_provider(providers, id, col, value)
       IN  /\ providers' = r.rows
           /\ storeOut' = [op |-> "update_provider",
                           outcome |-> IF r.raised THEN "raise"
                                       ELSE IF r.ok THEN "ok" ELSE "false"]
    /\ UNCHANGED <<nextId, history, uwh, uwhLog, changeOps>>
    /\ UNCHANGED nonStoreVars

DeleteProvider(id) ==
    /\ NoCallInFlight
    /\ LET r == delete_provider(providers, history, id)
       IN  /\ providers' = r.rows
           /\ storeOut' = [op |-> "delete_provider",
                           outcome |-> IF r.raised THEN "raise"
                                       ELSE IF r.ok THEN "ok" ELSE "false"]
    /\ UNCHANGED <<nextId, history, uwh, uwhLog, changeOps>>
    /\ UNCHANGED nonStoreVars

RecordHistory(id, c, old) ==
    /\ NoCallInFlight
    /\ Len(history) < MaxHistory
    /\ LET r == record_history(history, providers, id, c.change_type,
                               c.field_name, old, c.new_value, c.effective_date)
       IN  /\ history' = r.hist
           /\ changeOps' = IF r.raised THEN changeOps
                           ELSE [changeOps EXCEPT ![id] = @ + 1]
           /\ storeOut' = [op |-> "record_history",
                           outcome |-> IF r.raised THEN "raise" ELSE "ok",
                           id |-> r.id]
    /\ UNCHANGED <<providers, nextId, uwh, uwhLog>>
    /\ UNCHANGED nonStoreVars

GetProviderHistory(id) ==
    /\ NoCallInFlight
    /\ storeOut' = [op |-> "get_provider_history", outcome |-> "ok",
                    provider_id |-> id,
                    entries |-> get_provider_history(history, id)]
    /\ UNCHANGED <<providers, nextId, history, uwh, uwhLog, changeOps>>
    /\ UNCHANGED nonStoreVars

\* update_provider_with_history, statement by statement on the autocommit
\* connection: SELECT the current value ...
UwhSelect(id, c) ==
    /\ NoCallInFlight
    /\ Len(history) < MaxHistory
    /\ IF RowIndex(providers, id) = {}
       THEN /\ uwh' = Idle
            /\ storeOut' = [op |-> "update_provider_with_history",
                            outcome |-> "false"]
       ELSE LET row == providers[CHOOSE i \in RowIndex(providers, id) : TRUE]
            IN  /\ uwh' = [pc |-> "selected", provider_id |-> id, change |-> c,
                           old_value |-> row[c.field_name], hid |-> 0]
                /\ UNCHANGED storeOut
    /\ UNCHANGED <<providers, nextId, history, uwhLog, changeOps>>
    /\ UNCHANGED nonStoreVars

\* ... INSERT the history entry (committed at once: conn.autocommit = True) ...
UwhRecord ==
    /\ uwh.pc = "selected"
    /\ LET c == uwh.change
           r == record_history(history, providers, uwh.provider_id,
                               c.change_type, c.field_name,
                               IF Truthy(uwh.old_value) THEN uwh.old_value
                               ELSE NULL,
                               c.new_value, c.effective_date)
       IN  /\ history' = r.hist
           /\ IF r.raised
              THEN /\ uwh' = Idle
                   /\ storeOut' = [op |-> "update_provider_with_history",
                                   outcome |-> "raise"]
                   /\ UNCHANGED <<uwhLog, changeOps>>
              ELSE /\ uwh' = [uwh EXCEPT !.pc = "recorded", !.hid = r.id]
                   /\ uwhLog' = uwhLog \cup {[hid |-> r.id, field |-> "pending"]}
                   /\ changeOps' = [changeOps EXCEPT ![uwh.provider_id] = @ + 1]
                   /\ UNCHANGED storeOut
    /\ UNCHANGED <<providers, nextId>>
    /\ UNCHANGED nonStoreVars

\* ... UPDATE the provider row.
UwhUpdate ==
    /\ uwh.pc = "recorded"
    /\ LET r == update_provider(providers, uwh.provider_id,
                                uwh.change.field_name, uwh.change.new_value)
       IN  /\ providers' = r.rows
           /\ uwhLog' = (uwhLog \ {[hid |-> uwh.hid, field |-> "pending"]})
                          \cup {[hid |-> uwh.hid,
                                  field |-> IF r.raised THEN "not written"
                                            ELSE "written"]}
           /\ storeOut' = [op |-> "update_provider_with_history",
                           outcome |-> IF r.raised THEN "raise" ELSE "ok"]
    /\ uwh' = Idle
    /\ UNCHANGED <<nextId, history, changeOps>>
    /\ UNCHANGED nonStoreVars

\* The storage becomes unreachable between the INSERT and the UPDATE
UwhUpdateUnreachable ==
    /\ uwh.pc = "recorded"
    /\ uwhLog' = (uwhLog \ {[hid |-> uwh.hid, field |-> "pending"]})
                   \cup {[hid |-> uwh.hid, field |-> "not written"]}
    /\ storeOut' = [op |-> "update_provider_with_history", outcome |-> "raise"]
    /\ uwh' = Idle
    /\ UNCHANGED <<providers, nextId, history, changeOps>>
    /\ UNCHANGED nonStoreVars

\* ------------------------------------------------------------------------
\* Identity resolver: ProviderWebResearcher.check_duplicate
\* ------------------------------------------------------------------------

\* A key that a dictionary does not hold
MISSING == <<"<missing>">>

\* dict.get(key, default): the default only when the key is missing; a key
\* held with the value None reads as None
Get(d, key, default) == IF d[key] = MISSING THEN default ELSE d[key]

Letters ==
    {"a", "b", "c", "d", "e", "f", "g", "h", "i", "j", "k", "l", "m", "n", "o",
     "p", "q", "r", "s", "t", "u", "v", "w", "x", "y", "z"}

\* \s and \w of the re module, on the characters of the model
IsSpace(c) == c = " "

IsWordChar(c) == IsDigit(c) \/ c \in Letters \/ c = "_"

\* [\w\d-]
IsUnitChar(c) == IsWordChar(c) \/ c = "-"

\* \b between s[i-1] and s[i]
WordBoundary(s, i) ==
    LET before == i > 1 /\ IsWordChar(s[i - 1])
        here == i <= Len(s) /\ IsWordChar(s[i])
    IN  before # here

\* (suite|ste|unit|#), in the order the alternatives are tried
UnitTokens ==
    << <<"s", "u", "i", "t", "e">>, <<"s", "t", "e">>,
       <<"u", "n", "i", "t">>, <<"#">> >>

HasPrefixAt(s, i, t) ==
    i + Len(t) - 1 <= Len(s) /\ SubSeq(s, i, i + Len(t) - 1) = t

\* first index from i on that holds no space (Len(s) + 1 if there is none)
SkipSpaces(s, i) ==
    CHOOSE j \in i..(Len(s) + 1) :
        /\ \A k \in i..(j - 1) : IsSpace(s[k])
        /\ j = Len(s) + 1 \/ ~IsSpace(s[j])

SkipUnitChars(s, i) ==
    CHOOSE j \in i..(Len(s) + 1) :
        /\ \A k \in i..(j - 1) : IsUnitChar(s[k])
        /\ j = Len(s) + 1 \/ ~IsUnitChar(s[j])

\* Where a match of \b(suite|ste|unit|#)\s*[\w\d-]+ that starts at i ends
\* (the index after it), 0 if none starts at i
UnitMatchEnd(s, i) ==
    LET End(k) == LET a == SkipSpaces(s, i + Len(UnitTokens[k]))
                      b == SkipUnitChars(s, a)
                  IN  IF b > a THEN b ELSE 0
        ok == {k \in 1..Len(UnitTokens) :
                    HasPrefixAt(s, i, UnitTokens[k]) /\ End(k) > 0}
    IN  IF ~WordBoundary(s, i) \/ ok = {} THEN 0
        ELSE End(CHOOSE k \in ok : \A m \in ok : k <= m)

RECURSIVE RemoveUnits(_, _)
\* re.sub(r'\b(suite|ste|unit|#)\s*[\w\d-]+', '', s), scanning from i
RemoveUnits(s, i) ==
    IF i > Len(s) THEN <<>>
    ELSE LET e == UnitMatchEnd(s, i)
         IN  IF e > 0 THEN RemoveUnits(s, e)
             ELSE <<s[i]>> \o RemoveUnits(s, i + 1)

RECURSIVE CollapseSpaces(_)
\* re.sub(r'\s+', ' ', s)
CollapseSpaces(s) ==
    IF Len(s) < 2 THEN s
    ELSE IF IsSpace(s[1]) /\ IsSpace(s[2]) THEN CollapseSpaces(Tail(s))
    ELSE <<s[1]>> \o CollapseSpaces(Tail(s))

\* str.strip()
Strip(s) ==
    IF \A k \in 1..Len(s) : IsSpace(s[k]) THEN <<>>
    ELSE SubSeq(s, SkipSpaces(s, 1),
                CHOOSE j \in 1..Len(s) :
                    ~IsSpace(s[j]) /\ \A k \in (j + 1)..Len(s) : IsSpace(s[k]))

\* Both normalisers are defined on strings; on None re.sub raises TypeError
\* and None.lower() raises AttributeError (see _rule_based_deduplication)
_normalize_phone(phone) == DigitsOnly(phone)

_normalize_address(address) == Strip(CollapseSpaces(RemoveUnits(Lower(address), 1)))

DeduplicationResult(is_duplicate, reason, confidence, matching_provider_id) ==
    [outcome |-> "return", is_duplicate |-> is_duplicate, reason |-> reason,
     confidence |-> confidence, matching_provider_id |-> matching_provider_id]

\* The call ends with an exception
Raises(error) == [outcome |-> "raise", error |-> error]

\* _rule_based_deduplication returns None: no rule decided
NoRuleVerdict == [outcome |-> "none"]

\* The rules with the phone numbers compared as they are written
_rule_based_deduplication_raw_phone(new, existing) ==
    LET new_phone_arg == Get(new, "phone", <<>>)
        existing_phone_arg == Get(existing, "phone", <<>>)
        new_npi == Get(new, "npi", NULL)
    IN  IF new_phone_arg = NULL \/ existing_phone_arg = NULL
        THEN Raises("TypeError")
        ELSE IF new_phone_arg # <<>> /\ new_phone_arg = existing_phone_arg
        THEN DeduplicationResult(TRUE, "Same phone number", 95, existing.id)
        ELSE IF Truthy(new_npi) /\ new_npi = Get(existing, "npi", NULL)
        THEN DeduplicationResult(TRUE, "Same NPI", 100, existing.id)
        ELSE NoRuleVerdict

_rule_based_deduplication(new, existing) ==
    LET new_phone_arg == Get(new, "phone", <<>>)
        existing_phone_arg == Get(existing, "phone", <<>>)
        new_npi == Get(new, "npi", NULL)
        new_addr_arg == Get(new, "address", <<>>)
        existing_addr_arg == Get(existing, "address_full", <<>>)
        new_city == Get(new, "city", NULL)
        existing_city == Get(existing, "address_city", NULL)
    IN
    \* Rule 1: same phone number
    IF new_phone_arg = NULL \/ existing_phone_arg = NULL
    THEN Raises("TypeError")
    ELSE IF /\ _normalize_phone(new_phone_arg) # <<>>
            /\ _normalize_phone(existing_phone_arg) # <<>>
            /\ _normalize_phone(new_phone_arg) = _normalize_phone(existing_phone_arg)
    THEN DeduplicationResult(TRUE, "Same phone number", 95, existing.id)
    \* Rule 2: same NPI
    ELSE IF Truthy(new_npi) /\ new_npi = Get(existing, "npi", NULL)
    THEN DeduplicationResult(TRUE, "Same NPI", 100, existing.id)
    \* Rule 3: same normalized address
    ELSE IF new_addr_arg = NULL \/ existing_addr_arg = NULL
    THEN Raises("AttributeError")
    ELSE IF /\ _normalize_address(new_addr_arg) # <<>>
            /\ _normalize_address(existing_addr_arg) # <<>>
            /\ _normalize_address(new_addr_arg) = _normalize_address(existing_addr_arg)
    THEN DeduplicationResult(TRUE, "Same address", 90, existing.id)
    \* Rule 4: different cities
    ELSE IF /\ Truthy(new_city) /\ Truthy(existing_city)
            /\ Lower(new_city) # Lower(existing_city)
    THEN DeduplicationResult(FALSE, "Different cities", 90, NULL)
    ELSE NoRuleVerdict

\* What the text-completion call can hand back for a deduplication prompt:
\* JSON of the documented shape, or anything else (no JSON, broken JSON, a
\* missing key, a failed API call), on which the call raises
LlmDedupReplies ==
    { [parsed |-> TRUE, is_duplicate |-> TRUE, confidence |-> 80],
      [parsed |-> TRUE, is_duplicate |-> FALSE, confidence |-> 60],
      [parsed |-> FALSE] }

_llm_deduplication(new, existing, reply) ==
    IF ~reply.parsed THEN Raises("LLM")
    ELSE DeduplicationResult(reply.is_duplicate, "llm", reply.confidence,
                             IF reply.is_duplicate THEN existing.id ELSE NULL)

_simulate_deduplication(new, existing) ==
    DeduplicationResult(FALSE, "Different providers based on available data",
                        70, NULL)

check_duplicate(new, existing, llm_client, reply) ==
    LET rule_result == _rule_based_deduplication(new, existing)
    IN  IF rule_result # NoRuleVerdict THEN rule_result
        ELSE IF llm_client THEN _llm_deduplication(new, existing, reply)
        ELSE _simulate_deduplication(new, existing)

\* Inputs of check_duplicate: a candidate dictionary (extracted location or
\* parsed provider; any key may be missing or null) and a providers row
addr_ste == <<"1", " ", "M", " ", "s", "t", "e", " ", "2">>
addr_hash == <<"1", " ", "m", "#", "2", "-", "b">>
albany_lc == <<"a", "l", "b">>

Candidate(npi, phone, address, city) ==
    [npi |-> npi, phone |-> phone, address |-> address, city |-> city]

Candidates ==
    { Candidate(npi, phone, address, city) :
        npi \in {MISSING, NULL, npi_1, npi_2},
        phone \in {MISSING, NULL, ph_61, ph_72},
        address \in {MISSING, NULL, addr_1, addr_ste},
        city \in {MISSING, Boston, albany_lc} }

ExistingRows ==
    { Row(1, npi, n_ab, NullArray, phone, NULL, full, city, NULL) :
        npi \in {NULL, npi_1},
        phone \in {NULL, ph_61b, ph_72},
        full \in {NULL, addr_1, addr_hash},
        city \in {NULL, Boston, Albany} }

CheckDuplicate(reply) ==
    /\ dedupIn.pc = "called"
    /\ dedupOut = NoCall
    /\ dedupOut' = check_duplicate(dedupIn.new, dedupIn.existing,
                                   dedupIn.llm_client, reply)
    /\ UNCHANGED <<storeVars, dedupIn, orchVars>>

DedupNext == \E reply \in LlmDedupReplies : CheckDuplicate(reply)

\* ------------------------------------------------------------------------
\* Semantic matcher: ProviderSemanticMatcher
\* ------------------------------------------------------------------------
SemanticMatch(provider_id, provider_name, match_score, match_type, confidence) ==
    [provider_id |-> provider_id, provider_name |-> provider_name,
     match_score |-> match_score, match_type |-> match_type,
     confidence |-> confidence]

\* A call that returns value
Returns(value) == [outcome |-> "return", value |-> value]

\* KNOWN_ABBREVIATIONS, in the dictionary's order
KNOWN_ABBREVIATIONS ==
    << <<<<"c", "k">>, <<"c", "o", "m", "f", "o", "r", "t", " ",
                         "k", "e", "e", "p", "e", "r", "s">>>>,
       <<<<"v", "a">>, <<"v", "i", "s", "i", "t", "i", "n", "g", " ",
                         "a", "n", "g", "e", "l", "s">>>>,
       <<<<"h", "i">>, <<"h", "o", "m", "e", " ",
                         "i", "n", "s", "t", "e", "a", "d">>>>,
       <<<<"b", "s">>, <<"b", "r", "i", "g", "h", "t", "s", "t", "a", "r">>>>,
       <<<<"b", "r", "i", "g", "h", "t", "s", "t", "a", "r">>,
         <<"b", "r", "i", "g", "h", "t", "s", "t", "a", "r", " ",
           "c", "a", "r", "e">>>>,
       <<<<"g", "c", "p", "r", "e", "i", "t">>,
         <<"g", "c", "p", " ", "r", "e", "i", "t">>>> >>

\* \b abbrev \b matches at i
WholeWordAt(s, i, abbrev) ==
    /\ HasPrefixAt(s, i, abbrev)
    /\ WordBoundary(s, i)
    /\ WordBoundary(s, i + Len(abbrev))

RECURSIVE ReplaceWord(_, _, _, _)
\* re.sub(r'\b' + abbrev + r'\b', full_name, s), scanning from i
ReplaceWord(s, i, abbrev, full_name) ==
    IF i > Len(s) THEN <<>>
    ELSE IF WholeWordAt(s, i, abbrev)
    THEN full_name \o ReplaceWord(s, i + Len(abbrev), abbrev, full_name)
    ELSE <<s[i]>> \o ReplaceWord(s, i + 1, abbrev, full_name)

RECURSIVE ExpandFrom(_, _)
ExpandFrom(s, k) ==
    IF k > Len(KNOWN_ABBREVIATIONS) THEN s
    ELSE ExpandFrom(ReplaceWord(s, 1, KNOWN_ABBREVIATIONS[k][1],
                                KNOWN_ABBREVIATIONS[k][2]), k + 1)

_expand_abbreviations(query) == ExpandFrom(Lower(query), 1)

\* `if location_filter:`: a dictionary is truthy when it holds a key
FilterGiven(location_filter) ==
    \E k \in DOMAIN location_filter : location_filter[k] # MISSING

\* One turn of the loop of _rule_based_matching: the exception it raises,
\* "skip" (filtered out or no pattern applies), or the match it appends
MatchCandidate(query_lower, candidate, location_filter) ==
    LET legal_name == Lower(candidate.legal_name)
        state == Get(location_filter, "state", NULL)
        city == Get(location_filter, "city", NULL)
        Made(score, type) ==
            Returns(SemanticMatch(candidate.id, candidate.legal_name,
                                  score, type, score))
    IN
    IF candidate.parent_organization = NULL THEN Raises("AttributeError")
    ELSE IF FilterGiven(location_filter) /\ Truthy(city)
            /\ candidate.address_city = NULL
    THEN Raises("AttributeError")
    ELSE IF /\ FilterGiven(location_filter)
            /\ ~ ( /\ ~Truthy(state) \/ candidate.address_state = state
                   /\ ~Truthy(city)
                        \/ Contains(Lower(city), Lower(candidate.address_city)) )
    THEN [outcome |-> "skip"]
    ELSE IF /\ candidate.parent_organization # <<>>
            /\ Contains(query_lower, Lower(candidate.parent_organization))
    THEN Made(90, "parent_child")
    ELSE IF Contains(query_lower, legal_name)
    THEN Made(95, "exact")
    ELSE IF candidate.dba_names = NullArray THEN Raises("TypeError")
    ELSE IF \E i \in 1..Len(candidate.dba_names) :
                Contains(query_lower, Lower(candidate.dba_names[i]))
    THEN Made(85, "dba")
    ELSE IF legal_name # <<>> /\ Contains(legal_name, query_lower)
    THEN Made(90, "regional")
    ELSE [outcome |-> "skip"]

RECURSIVE InsertByMatchScore(_, _)
\* list.sort(key=match_score, reverse=True) is stable: m goes behind the
\* matches whose score is at least its own
InsertByMatchScore(sorted, m) ==
    IF sorted = <<>> THEN <<m>>
    ELSE IF Head(sorted).match_score >= m.match_score
    THEN <<Head(sorted)>> \o InsertByMatchScore(Tail(sorted), m)
    ELSE <<m>> \o sorted

RECURSIVE SortMatches(_)
SortMatches(matches) ==
    IF matches = <<>> THEN <<>>
    ELSE InsertByMatchScore(SortMatches(SubSeq(matches, 1, Len(matches) - 1)),
                            matches[Len(matches)])

_rule_based_matching(query, candidates, location_filter) ==
    LET turn == [i \in 1..Len(candidates) |->
                    MatchCandidate(Lower(query), candidates[i], location_filter)]
        raising == {i \in 1..Len(candidates) : turn[i].outcome = "raise"}
        made == SelectSeq(turn, LAMBDA t : t.outcome = "return")
    IN  IF raising # {}
        THEN turn[CHOOSE i \in raising : \A j \in raising : i <= j]
        ELSE Returns(SortMatches([i \in 1..Len(made) |-> made[i].value]))

AtLeast(matches, threshold) ==
    SelectSeq(matches, LAMBDA m : m.confidence >= threshold)

\* What the text-completion call can hand back for a matching prompt: the
\* API call fails, the text does not parse (an empty list is returned), or
\* a list of matches over the candidates, in the order the reply gives them
LlmMatchReplies(candidates) ==
    LET M(i, c) == SemanticMatch(candidates[i].id, candidates[i].legal_name,
                                 c, "abbreviation", c)
        last == Len(candidates)
    IN  { [kind |-> "raise"], [kind |-> "unparsable"],
          [kind |-> "matches", matches |-> <<M(1, 85)>>],
          [kind |-> "matches", matches |-> <<M(1, 60)>>],
          [kind |-> "matches", matches |-> <<M(1, 75), M(last, 90)>>] }

_llm_semantic_matching(query, candidates, location_filter, reply) ==
    IF reply.kind = "raise" THEN Raises("LLM")
    ELSE IF reply.kind = "unparsable" THEN Returns(<<>>)
    ELSE Returns(reply.matches)

_simulate_semantic_matching(query, candidates, location_filter) ==
    _rule_based_matching(_expand_abbreviations(query), candidates, location_filter)

\* match asking the model first whenever a client is configured
match_model_first(query, candidates, location_filter, threshold, llm_client, reply) ==
    IF candidates = <<>> THEN Returns(<<>>)
    ELSE IF query = NULL THEN Raises("AttributeError")
    ELSE LET rule_matches == _rule_based_matching(_expand_abbreviations(query),
                                                  candidates, location_filter)
             first == _llm_semantic_matching(query, candidates,
                                             location_filter, reply)
         IN  IF llm_client /\ first.outcome = "raise" THEN first
             ELSE IF llm_client /\ first.value # <<>>
             THEN Returns(AtLeast(first.value, threshold))
             ELSE IF rule_matches.outcome = "raise" THEN rule_matches
             ELSE Returns(AtLeast(rule_matches.value, threshold))

\* ProviderSemanticMatcher.match; query None raises in _expand_abbreviations
match(query, candidates, location_filter, threshold, llm_client, reply) ==
    IF candidates = <<>> THEN Returns(<<>>)
    ELSE IF query = NULL THEN Raises("AttributeError")
    ELSE LET rule_matches == _rule_based_matching(_expand_abbreviations(query),
                                                  candidates, location_filter)
             later == IF llm_client
                      THEN _llm_semantic_matching(query, candidates,
                                                  location_filter, reply)
                      ELSE _simulate_semantic_matching(query, candidates,
                                                       location_filter)
         IN  IF rule_matches.outcome = "raise" THEN rule_matches
             ELSE IF rule_matches.value # <<>>
             THEN Returns(AtLeast(rule_matches.value, threshold))
             ELSE IF later.outcome = "raise" THEN later
             ELSE Returns(AtLeast(later.value, threshold))

\* ------------------------------------------------------------------------
\* Web researcher: ProviderWebResearcher.research
\* ------------------------------------------------------------------------

\* A location dictionary as the extraction step hands it over
Location(name, legal_name, phone, address, city) ==
    [id |-> MISSING, name |-> name, legal_name |-> legal_name, phone |-> phone,
     npi |-> MISSING, address |-> address, city |-> city, state |-> MISSING]

ResearchResult(locations, npi_records, confidence, warnings) ==
    [locations |-> locations, npi_records |-> npi_records,
     confidence |-> confidence, warnings |-> warnings]

_empty_result(warnings) == ResearchResult(<<>>, <<>>, 0, warnings)

_calculate_confidence(locations, npi_records, warnings) ==
    LET score == 50 + (IF locations # <<>> THEN 20 ELSE 0)
                    + (IF npi_records # <<>> THEN 20 ELSE 0)
                    + (IF warnings = <<>> THEN 10 ELSE 0)
    IN  IF score < 100 THEN score ELSE 100

\* The identifier that the simulated registry lookup hands back
ValidatedNpi == <<"1", "2", "3", "4", "5", "6", "7", "8", "9", "0">>

_validate_npi(location) ==
    [npi |-> ValidatedNpi, legal_name |-> Get(location, "name", NULL),
     status |-> "active"]

RECURSIVE DedupFrom(_, _, _, _)
\* The loop of _deduplicate_locations from locations[i] on
DedupFrom(locations, i, seen_phones, seen_addresses) ==
    IF i > Len(locations) THEN Returns(<<>>)
    ELSE LET loc == locations[i]
             Unique(rest) ==
                 IF rest.outcome = "raise" THEN rest
                 ELSE Returns(<<loc>> \o rest.value)
             Normalized(phone, address) ==
                 IF \/ phone # <<>> /\ phone \in seen_phones
                    \/ address # <<>> /\ address \in seen_addresses
                 THEN DedupFrom(locations, i + 1, seen_phones, seen_addresses)
                 ELSE Unique(DedupFrom(locations, i + 1,
                                 seen_phones \cup (IF phone # <<>>
                                                   THEN {phone} ELSE {}),
                                 seen_addresses \cup (IF address # <<>>
                                                      THEN {address} ELSE {})))
             Read(phone_arg, address_arg) ==
                 IF phone_arg = NULL THEN Raises("TypeError")
                 ELSE IF address_arg = NULL THEN Raises("AttributeError")
                 ELSE Normalized(_normalize_phone(phone_arg),
                                 _normalize_address(address_arg))
         IN  Read(Get(loc, "phone", <<>>), Get(loc, "address", <<>>))

_deduplicate_locations(locations) == DedupFrom(locations, 1, {}, {})

RECURSIVE ExtractedFrom_stop_at_failure(_, _)
\* The fetch-and-extract loop giving up at the first URL whose fetch fails
ExtractedFrom_stop_at_failure(sources, i) ==
    IF i > Len(sources) \/ i > 5 THEN Returns(<<>>)
    ELSE IF sources[i].kind = "raise" THEN Raises("LLM")
    ELSE IF sources[i].kind = "failed" THEN Returns(<<>>)
    ELSE LET rest == ExtractedFrom_stop_at_failure(sources, i + 1)
         IN  IF rest.outcome = "raise" THEN rest
             ELSE Returns(sources[i].locations \o rest.value)

RECURSIVE ExtractedFrom(_, _)
\* The fetch-and-extract loop over urls[:5]: sources[i] is what the i-th URL
\* yields: the fetch fails (no content), the extraction raises, or locations
ExtractedFrom(sources, i) ==
    IF i > Len(sources) \/ i > 5 THEN Returns(<<>>)
    ELSE IF sources[i].kind = "raise" THEN Raises("LLM")
    ELSE LET rest == ExtractedFrom(sources, i + 1)
         IN  IF rest.outcome = "raise" THEN rest
             ELSE IF sources[i].kind = "failed" THEN rest
             ELSE Returns(sources[i].locations \o rest.value)

research(sources) ==
    IF sources = <<>> THEN Returns(_empty_result(<<"No web results found">>))
    ELSE LET Validated(locations, npi_records, warnings) ==
                 Returns(ResearchResult(locations, npi_records,
                             _calculate_confidence(locations, npi_records,
                                                   warnings),
                             warnings))
             Deduplicated(unique, warnings) ==
                 IF unique.outcome = "raise" THEN unique
                 ELSE Validated([i \in 1..Len(unique.value) |->
                                    [unique.value[i] EXCEPT
                                        !.npi = _validate_npi(unique.value[i]).npi]],
                                [i \in 1..Len(unique.value) |->
                                    _validate_npi(unique.value[i])],
                                warnings)
             Extracted(extracted) ==
                 IF extracted.outcome = "raise" THEN extracted
                 ELSE Deduplicated(_deduplicate_locations(extracted.value),
                                   IF extracted.value = <<>>
                                   THEN <<"Could not extract location data">>
                                   ELSE <<>>)
         IN  Extracted(ExtractedFrom(sources, 1))

loc_a == Location(n_ac, MISSING, ph_61, addr_1, Boston)
loc_b == Location(n_bd, n_bd, ph_72, addr_1s, MISSING)
loc_null == Location(n_ab, MISSING, NULL, NULL, MISSING)

\* What the web can yield for one research call
ResearchSources ==
    { <<>>,
      <<[kind |-> "failed"]>>,
      <<[kind |-> "raise"]>>,
      <<[kind |-> "ok", locations |-> <<loc_b>>]>>,
      <<[kind |-> "failed"], [kind |-> "ok", locations |-> <<loc_a, loc_b>>]>>,
      <<[kind |-> "ok", locations |-> <<loc_null>>]>> }

addr_unit == <<"1", " ", "m", " ", "u", "n", "i", "t", " ", "3">>
addr_3s == <<"1", " ", "m", " ", "#", "3">>
addr_2 == <<"2", " ", "m">>

\* The locations one extraction can yield, and the lists of them
ExtractedLocations ==
    { Location(n_ab, MISSING, phone, address, MISSING) :
        phone \in {ph_61, ph_72},
        address \in {addr_1, addr_ste, addr_unit, addr_1s, addr_3s, addr_2} }
    \cup {loc_null}

LocationLists == UNION { [1..n -> ExtractedLocations] : n \in 0..MaxLocations }

MAX_RETRIES == 2

RECURSIVE FetchFrom(_, _, _)
\* The retry loop of _fetch_content_real from the given attempt on; attempts
\* holds what session.get and raise_for_status do at each attempt: "ok",
\* "timeout" (requests.Timeout), "network" or "status" (another
\* requests.RequestException). printed is what the call prints.
FetchFrom(url, attempts, attempt) ==
    IF attempt >= MAX_RETRIES THEN [content |-> FALSE, printed |-> <<>>]
    ELSE IF attempts[attempt + 1] = "ok" THEN [content |-> TRUE, printed |-> <<>>]
    ELSE IF attempts[attempt + 1] = "timeout"
    THEN IF attempt < MAX_RETRIES - 1 THEN FetchFrom(url, attempts, attempt + 1)
         ELSE [content |-> FALSE,
               printed |-> <<[url |-> url, line |-> "Timeout fetching"]>>]
    ELSE [content |-> FALSE,
          printed |-> <<[url |-> url, line |-> "Error fetching"]>>]

_fetch_content_real(url, attempts) == FetchFrom(url, attempts, 0)

\* What each URL of the search yields to the loop of research: no content
\* when its fetch fails, else what the extraction makes of its page
Fetched(urls) ==
    [i \in 1..Len(urls) |->
        IF _fetch_content_real(i, urls[i].attempts).content THEN urls[i].page
        ELSE [kind |-> "failed"]]

RECURSIVE FetchLog(_, _)
\* What the fetches of research print, from urls[i] on; an extraction that
\* raises ends the call
FetchLog(urls, i) ==
    IF i > Len(urls) \/ i > 5 THEN <<>>
    ELSE LET fetch == _fetch_content_real(i, urls[i].attempts)
         IN  IF fetch.content /\ urls[i].page.kind = "raise" THEN <<>>
             ELSE fetch.printed \o FetchLog(urls, i + 1)

\* One URL of the web search: its fetch attempts and the page behind it
WebSource(attempts, page) == [attempts |-> attempts, page |-> page]

WebSources ==
    { WebSource(attempts, page) :
        attempts \in { <<"ok", "ok">>, <<"timeout", "ok">>,
                       <<"timeout", "timeout">>, <<"timeout", "status">>,
                       <<"network", "ok">>, <<"status", "ok">> },
        page \in { [kind |-> "ok", locations |-> <<loc_a>>],
                   [kind |-> "ok", locations |-> <<loc_b>>],
                   [kind |-> "ok", locations |-> <<>>],
                   [kind |-> "raise"] } }

\* The URL lists of a research call: short ones of any make, and one with
\* more than the five URLs that research reads
UrlLists ==
    UNION { [1..n -> WebSources] : n \in 0..MaxUrls }
    \cup { [i \in 1..6 |->
              WebSource(IF i = 2 THEN <<"status", "ok">> ELSE <<"ok", "ok">>,
                        [kind |-> "ok",
                         locations |-> IF i = 6 THEN <<loc_b>> ELSE <<loc_a>>])] }

\* A call of research
Research ==
    /\ dedupIn.pc = "research"
    /\ dedupOut = NoCall
    /\ LET Logged(r) == [x \in DOMAIN r \cup {"printed"} |->
                            IF x = "printed" THEN FetchLog(dedupIn.urls, 1)
                            ELSE r[x]]
       IN  dedupOut' = Logged(research(Fetched(dedupIn.urls)))
    /\ UNCHANGED <<storeVars, dedupIn, orchVars>>

\* A call of _deduplicate_locations
DeduplicateLocations ==
    /\ dedupIn.pc = "deduplicate"
    /\ dedupOut = NoCall
    /\ dedupOut' = _deduplicate_locations(dedupIn.locations)
    /\ UNCHANGED <<storeVars, dedupIn, orchVars>>

\* ------------------------------------------------------------------------
\* Legacy pipeline: ProviderResearchLLM.deduplicate_locations
\* ------------------------------------------------------------------------

\* `len(phone) >= 10` and `len(address) > 10`
MIN_PHONE_DIGITS == 10
MIN_ADDRESS_LENGTH == 10

RECURSIVE HashToUnit(_, _)
\* re.sub(r'#(\d)', r'unit \1', s), scanning from i
HashToUnit(s, i) ==
    IF i > Len(s) THEN <<>>
    ELSE IF s[i] = "#" /\ i < Len(s) /\ IsDigit(s[i + 1])
    THEN <<"u", "n", "i", "t", " ">> \o HashToUnit(s, i + 1)
    ELSE <<s[i]>> \o HashToUnit(s, i + 1)

\* re.sub(r'[^\w\s]', ' ', s)
PunctToSpace(s) ==
    [i \in 1..Len(s) |-> IF IsWordChar(s[i]) \/ IsSpace(s[i]) THEN s[i] ELSE " "]

\* The address key of _find_obvious_duplicates: suite and unit numbers stay
LegacyAddressKey(address) ==
    Strip(CollapseSpaces(PunctToSpace(HashToUnit(
        ReplaceWord(ReplaceWord(Lower(address), 1, <<"s", "u", "i", "t", "e">>, <<"s", "t", "e">>),
                    1, <<"a", "p", "a", "r", "t", "m", "e", "n", "t">>, <<"a", "p", "t">>), 1))))

\* loc.get('id', id(loc)): a location without an id counts under its object
\* identity, which no loc.get('id') equals
LocId(locations, i) ==
    IF locations[i].id = MISSING THEN <<"<object>", ToString(i)>>
    ELSE locations[i].id

RECURSIVE FindObviousFrom(_, _, _, _)
\* The loop of _find_obvious_duplicates from locations[i] on: the ids found
FindObviousFrom(locations, i, seen_phones, seen_addresses) ==
    IF i > Len(locations) THEN Returns({})
    ELSE LET loc == locations[i]
             Found(dupe, rest) ==
                 IF rest.outcome = "raise" THEN rest
                 ELSE Returns((IF dupe THEN {LocId(locations, i)} ELSE {})
                              \cup rest.value)
             Keyed(phone, address) ==
                 Found(\/ Len(phone) >= MIN_PHONE_DIGITS /\ phone \in seen_phones
                       \/ Len(address) > MIN_ADDRESS_LENGTH
                             /\ address \in seen_addresses,
                       FindObviousFrom(locations, i + 1,
                           seen_phones \cup (IF Len(phone) >= MIN_PHONE_DIGITS
                                             THEN {phone} ELSE {}),
                           seen_addresses \cup (IF Len(address) > MIN_ADDRESS_LENGTH
                                                THEN {address} ELSE {})))
             Read(phone_arg, address_arg) ==
                 IF phone_arg = NULL THEN Raises("TypeError")
                 ELSE IF address_arg = NULL THEN Raises("AttributeError")
                 ELSE Keyed(DigitsOnly(phone_arg), LegacyAddressKey(address_arg))
         IN  Read(Get(loc, "phone", <<>>), Get(loc, "address", <<>>))

_find_obvious_duplicates(locations) == FindObviousFrom(locations, 1, {}, {})

\* [loc for loc in locations if loc.get('id') not in ids]
WithoutIds(locations, ids) ==
    SelectSeq(locations, LAMBDA loc : Get(loc, "id", NULL) \notin ids)

\* What the text-completion call can hand back for the deduplication prompt:
\* the call fails, the text is no JSON, or duplicate groups that name at
\* most one of the remaining ids for removal
LegacyReplies(locations) ==
    {[kind |-> "raise"], [kind |-> "not_json"]}
    \cup {[kind |-> "groups", remove |-> {}]}
    \cup {[kind |-> "groups", remove |-> {Get(locations[i], "id", NULL)}] :
            i \in 1..Len(locations)}

deduplicate_locations(locations, llm_client, reply) ==
    IF Len(locations) <= 1 THEN Returns(locations)
    ELSE LET SecondPass(remaining) ==
                 IF Len(remaining) <= 1 THEN Returns(remaining)
                 ELSE IF ~llm_client \/ reply.kind = "not_json"
                 THEN Returns(remaining)
                 ELSE IF reply.kind = "raise" THEN Raises("LLM")
                 ELSE Returns(WithoutIds(remaining, reply.remove))
             FirstPass(obvious_dupes) ==
                 IF obvious_dupes.outcome = "raise" THEN obvious_dupes
                 ELSE SecondPass(WithoutIds(locations, obvious_dupes.value))
         IN  FirstPass(_find_obvious_duplicates(locations))

id_1 == <<"1">>
id_2 == <<"2">>
lp_a == <<"6", "1", "7", "5", "5", "5", "0", "1", "0", "0">>
lp_a2 == <<"6", "1", "7", "-", "5", "5", "5", "-", "0", "1", "0", "0">>
lp_b == <<"6", "1", "7", "5", "5", "5", "0", "1", "9", "9">>
la_s2 == <<"1", " ", "m", "a", "i", "n", " ", "s", "u", "i", "t", "e", " ", "2">>
la_s3 == <<"1", " ", "m", "a", "i", "n", " ", "s", "t", "e", " ", "3">>
la_h2 == <<"1", " ", "m", "a", "i", "n", " ", "#", "2">>
la_other == <<"2", "1", " ", "m", "a", "i", "n", " ", "a", "v", "e">>

LegacyLocation(id, phone, address) ==
    [id |-> id, phone |-> phone, address |-> address]

LegacyLocations ==
    { LegacyLocation(id, phone, address) :
        id \in {id_1, id_2},
        phone \in {lp_a, lp_a2, lp_b},
        address \in {la_s2, la_s3, la_h2, la_other} }
    \cup {LegacyLocation(MISSING, lp_a, la_s2), LegacyLocation(id_1, NULL, la_s2)}

LegacyLists == UNION { [1..n -> LegacyLocations] : n \in 0..MaxLocations }

\* A call of the legacy deduplicate_locations
LegacyDeduplicate ==
    /\ dedupIn.pc = "legacy"
    /\ dedupOut = NoCall
    /\ \E reply \in LegacyReplies(dedupIn.locations) :
          dedupOut' = deduplicate_locations(dedupIn.locations,
                                            dedupIn.llm_client, reply)
    /\ UNCHANGED <<storeVars, dedupIn, orchVars>>

\* ------------------------------------------------------------------------
\* Orchestrator: ProviderOrchestrator.process_query
\* ------------------------------------------------------------------------

\* A dictionary-valued field that holds None
NoneDict == [none |-> TRUE]

IsNone(d) == "none" \in DOMAIN d

\* self.last_result before any query produced providers
NoProvider == [id |-> 0]

ParsedQuery(intent, provider_queries, filters, clarification_needed, confidence) ==
    [intent |-> intent, providers |-> provider_queries, filters |-> filters,
     clarification_needed |-> clarification_needed, confidence |-> confidence]

\* One element of ParsedQuery.providers
ProviderQuery(name, phone, npi) ==
    [id |-> MISSING, name |-> name, location |-> MISSING, phone |-> phone,
     npi |-> npi, address |-> MISSING, city |-> MISSING, state |-> MISSING]

Filters(state, city) ==
    [state |-> state, city |-> city, parent_organization |-> MISSING]

question == <<"?">>

\* ------------------------------------------------------------------------
\* Query interpreter: ProviderQueryInterpreter._simulate_interpretation
\* ------------------------------------------------------------------------
Alphabet ==
    <<"a", "b", "c", "d", "e", "f", "g", "h", "i", "j", "k", "l", "m", "n", "o", "p", "q", "r", "s", "t", "u", "v", "w", "x", "y", "z">>

Capitals ==
    <<"A", "B", "C", "D", "E", "F", "G", "H", "I", "J", "K", "L", "M", "N", "O", "P", "Q", "R", "S", "T", "U", "V", "W", "X", "Y", "Z">>

IsUpper(c) == \E k \in 1..26 : Capitals[k] = c

UpperChar(c) ==
    IF c \in Letters THEN Capitals[CHOOSE k \in 1..26 : Alphabet[k] = c] ELSE c

\* str.title() of a lower-case string: a letter that follows no letter is
\* made a capital
Title(s) ==
    [i \in 1..Len(s) |->
        IF i = 1 \/ s[i - 1] \notin Letters THEN UpperChar(s[i]) ELSE s[i]]

\* provider_patterns, in the order they are tried: the text, whether an "s"
\* may follow ("s?"), and whether a word boundary must follow ("\b")
provider_patterns ==
    << [text |-> <<"h", "o", "m", "e", " ", "i", "n", "s", "t", "e", "a", "d">>,
        plural |-> FALSE, bounded |-> FALSE],
       [text |-> <<"c", "o", "m", "f", "o", "r", "t", " ", "k", "e", "e", "p", "e", "r">>,
        plural |-> TRUE, bounded |-> FALSE],
       [text |-> <<"c", "k">>,
        plural |-> FALSE, bounded |-> TRUE],
       [text |-> <<"v", "i", "s", "i", "t", "i", "n", "g", " ", "a", "n", "g", "e", "l">>,
        plural |-> TRUE, bounded |-> FALSE],
       [text |-> <<"b", "r", "i", "g", "h", "t", "s", "t", "a", "r", " ", "c", "a", "r", "e">>,
        plural |-> FALSE, bounded |-> FALSE],
       [text |-> <<"g", "c", "p", " ", "r", "e", "i", "t">>,
        plural |-> FALSE, bounded |-> FALSE] >>

\* re.search(pattern, s).group(0), or None: the leftmost match
PatternSearch(pattern, s) ==
    LET hits == {i \in 1..Len(s) :
                    /\ HasPrefixAt(s, i, pattern.text)
                    /\ pattern.bounded => WordBoundary(s, i + Len(pattern.text))}
        Group(i) == IF /\ pattern.plural
                       /\ HasPrefixAt(s, i + Len(pattern.text), <<"s">>)
                    THEN Append(pattern.text, "s") ELSE pattern.text
    IN  IF hits = {} THEN NULL
        ELSE Group(CHOOSE i \in hits : \A j \in hits : i <= j)

\* any(word in s for word in words)
AnyIn(words, s) == \E w \in words : Contains(w, s)

\* The intent detected from the keywords of the query
DetectIntent(query_lower) ==
    IF AnyIn({<<"f", "i", "n", "d">>,
         <<"s", "e", "a", "r", "c", "h">>,
         <<"l", "o", "o", "k", " ", "f", "o", "r">>,
         <<"l", "o", "c", "a", "t", "e">>}, query_lower)
    THEN "search"
    ELSE IF AnyIn({<<"a", "d", "d">>,
         <<"i", "n", "s", "e", "r", "t">>,
         <<"s", "a", "v", "e">>,
         <<"s", "t", "o", "r", "e">>}, query_lower)
    THEN "add"
    ELSE IF AnyIn({<<"c", "o", "m", "p", "a", "r", "e">>,
         <<"v", "s">>,
         <<"v", "e", "r", "s", "u", "s">>,
         <<"d", "i", "f", "f", "e", "r", "e", "n", "c", "e">>}, query_lower)
    THEN "compare"
    ELSE IF AnyIn({<<"l", "i", "s", "t">>,
         <<"s", "h", "o", "w", " ", "a", "l", "l">>,
         <<"h", "o", "w", " ", "m", "a", "n", "y">>}, query_lower)
    THEN "list"
    ELSE "search"

\* One element of the providers list of the interpretation
NamedProvider(name) == [name |-> name, location |-> NULL]

RECURSIVE QueryProviders(_, _)
\* The providers named in the query: the loop over provider_patterns from
\* the k-th pattern on
QueryProviders(query_lower, k) ==
    IF k > Len(provider_patterns) THEN <<>>
    ELSE LET name == PatternSearch(provider_patterns[k], query_lower)
             rest == QueryProviders(query_lower, k + 1)
         IN  IF name = NULL THEN rest
             ELSE IF name = <<"c", "k">>
             THEN <<NamedProvider(<<"C", "o", "m", "f", "o", "r", "t", " ", "K", "e", "e", "p", "e", "r", "s">>)>> \o rest
             ELSE <<NamedProvider(Title(name))>> \o rest

\* \w on the query as it was typed
IsAnyWordChar(c) == IsWordChar(c) \/ IsUpper(c)

\* re.search(r'\b([A-Z]{2})\b', user_query).group(1), or None
StateMatch(user_query) ==
    LET hits == {i \in 1..(Len(user_query) - 1) :
                    /\ IsUpper(user_query[i]) /\ IsUpper(user_query[i + 1])
                    /\ i = 1 \/ ~IsAnyWordChar(user_query[i - 1])
                    /\ i + 2 > Len(user_query) \/ ~IsAnyWordChar(user_query[i + 2])}
    IN  IF hits = {} THEN NULL
        ELSE SubSeq(user_query, CHOOSE i \in hits : \A j \in hits : i <= j,
                    (CHOOSE i \in hits : \A j \in hits : i <= j) + 1)

\* The end of a word [A-Z][a-z]+ that starts at j, or 0 if none starts there
CapWordEnd(s, j) ==
    IF j + 1 <= Len(s) /\ IsUpper(s[j]) /\ s[j + 1] \in Letters
    THEN CHOOSE e \in (j + 1)..Len(s) :
            /\ \A k \in (j + 1)..e : s[k] \in Letters
            /\ e = Len(s) \/ s[e + 1] \notin Letters
    ELSE 0

RECURSIVE CityEnd(_, _)
\* The end of [A-Z][a-z]+(?: [A-Z][a-z]+)* for a first word that starts at j
CityEnd(s, j) ==
    LET e == CapWordEnd(s, j)
    IN  IF e + 2 <= Len(s) /\ s[e + 1] = " " /\ CapWordEnd(s, e + 2) # 0
        THEN CityEnd(s, e + 2) ELSE e

\* re.search(r'in ([A-Z][a-z]+(?: [A-Z][a-z]+)*)', user_query).group(1), or None
CityMatch(user_query) ==
    LET hits == {i \in 1..Len(user_query) :
                    /\ HasPrefixAt(user_query, i, <<"i", "n", " ">>)
                    /\ CapWordEnd(user_query, i + 3) # 0}
        Group(i) == SubSeq(user_query, i + 3, CityEnd(user_query, i + 3))
    IN  IF hits = {} THEN NULL
        ELSE Group(CHOOSE i \in hits : \A j \in hits : i <= j)

\* The positions of the commas of s
Commas(s) == {i \in 1..Len(s) : s[i] = ","}

RECURSIVE TheirFrom(_, _)
\* The pronoun loop over reversed(conversation_history) from turn k down:
\* the first assistant turn whose content matches a pattern, and in it the
\* first pattern of provider_patterns that matches
TheirFrom(conversation_history, k) ==
    IF k < 1 THEN MISSING
    ELSE LET content == Lower(conversation_history[k].content)
             matching == {p \in 1..Len(provider_patterns) :
                            PatternSearch(provider_patterns[p], content) # NULL}
         IN  IF conversation_history[k].role = "assistant" /\ matching # {}
             THEN Title(PatternSearch(
                      provider_patterns[CHOOSE p \in matching :
                                            \A o \in matching : p <= o],
                      content))
             ELSE TheirFrom(conversation_history, k - 1)

last_result_text == <<"l", "a", "s", "t", " ", "r", "e", "s", "u", "l", "t">>

\* self.last_result.get('name', 'last result')
RefName(last) ==
    IF "name" \in DOMAIN last /\ last.name # MISSING THEN last.name
    ELSE last_result_text

which_provider == <<"W", "h", "i", "c", "h", " ", "p", "r", "o", "v", "i", "d", "e", "r", " ", "a", "r", "e", " ", "y", "o", "u", " ", "l", "o", "o", "k", "i", "n", "g", " ", "f", "o", "r", "?">>
which_state == <<"W", "h", "i", "c", "h", " ", "s", "t", "a", "t", "e", " ", "w", "o", "u", "l", "d", " ", "y", "o", "u", " ", "l", "i", "k", "e", " ", "m", "e", " ", "t", "o", " ", "s", "e", "a", "r", "c", "h", " ", "i", "n", "?">>

\* _simulate_interpretation; last is self.last_result (NoProvider for None)
_simulate_interpretation(user_query, conversation_history, user_context, last) ==
    LET query_lower == Lower(user_query)
        intent == DetectIntent(query_lower)
        named == QueryProviders(query_lower, 1)
        user_location == Get(user_context, "location", <<>>)
        near == AnyIn({<<"n", "e", "a", "r", " ", "m", "e">>,
                       <<"l", "o", "c", "a", "l">>}, query_lower)
        split == near /\ user_location # <<>> /\ Commas(user_location) # {}
        comma == CHOOSE i \in Commas(user_location) : TRUE
        state == IF split
                 THEN Strip(SubSeq(user_location, comma + 1, Len(user_location)))
                 ELSE IF StateMatch(user_query) # NULL THEN StateMatch(user_query)
                 ELSE MISSING
        city == IF split THEN Strip(SubSeq(user_location, 1, comma - 1))
                ELSE IF CityMatch(user_query) # NULL THEN CityMatch(user_query)
                ELSE MISSING
        their == IF AnyIn({<<"t", "h", "e", "i", "r">>, <<"t", "h", "e", "y">>,
                           <<"t", "h", "e", "m">>}, query_lower)
                 THEN TheirFrom(conversation_history, Len(conversation_history))
                 ELSE MISSING
        referred == AnyIn({<<"t", "h", "a", "t">>, <<"t", "h", "i", "s">>,
                           <<"i", "t">>}, query_lower) /\ last # NoProvider
        with_their == IF their # MISSING /\ named = <<>>
                      THEN <<NamedProvider(their)>> ELSE named
        providers_found ==
            IF referred /\ intent = "add" /\ with_their = <<>>
            THEN <<NamedProvider(RefName(last))>> ELSE with_their
    IN  IF split /\ Cardinality(Commas(user_location)) > 1
        THEN Raises("ValueError")
        ELSE Returns(
            [intent |-> intent,
             providers |-> providers_found,
             filters |-> Filters(state, city),
             references_resolved |->
                 [near_me |-> IF near THEN user_location ELSE MISSING,
                  their |-> their,
                  that |-> IF referred THEN RefName(last) ELSE MISSING],
             multi_step_plan |->
                 IF Contains(<<"c", "o", "m", "p", "a", "r", "e">>, query_lower)
                    /\ Len(providers_found) > 1
                 THEN <<"Step 1", "Step 2", "Step 3">> ELSE <<>>,
             clarification_needed |->
                 IF providers_found = <<>> /\ intent \in {"search", "add"}
                 THEN which_provider
                 ELSE IF state = MISSING /\ intent = "list" THEN which_state
                 ELSE NULL,
             confidence |-> IF providers_found # <<>> THEN 90 ELSE 50])

\* ------------------------------------------------------------------------
\* Data tool: ProviderEnrichmentPipeline.deduplicate
\* ------------------------------------------------------------------------

\* A provider record of the exported store state; a key that is absent is
\* MISSING, a null value NULL; dba_names is a list or NullArray
Exported(id, legal_name, phone, npi, email, dba_names, parent, street) ==
    [id |-> id, legal_name |-> legal_name, phone |-> phone, npi |-> npi,
     email |-> email, fax |-> NULL, location_website |-> NULL,
     franchise_id |-> MISSING, dba_names |-> dba_names,
     parent_organization |-> parent, real_estate_owner |-> MISSING,
     address_street |-> street, address_full |-> NULL,
     address_city |-> Boston, address_state |-> MA]

\* dict.get(key) of a record: None for an absent key
Field(record, key) == IF record[key] = MISSING THEN NULL ELSE record[key]

SkipDigits(s, i) ==
    CHOOSE j \in i..(Len(s) + 1) :
        /\ \A k \in i..(j - 1) : IsDigit(s[k])
        /\ j = Len(s) + 1 \/ ~IsDigit(s[j])

\* Where a match of ,?\s*(suite|ste|unit|#)\s*\d+ (ignoring case) that
\* starts at i ends (the index after it), 0 if none starts at i
SuiteMatchEnd(s, i) ==
    LET token == SkipSpaces(s, IF s[i] = "," THEN i + 1 ELSE i)
        End(k) == LET a == SkipSpaces(s, token + Len(UnitTokens[k]))
                      b == SkipDigits(s, a)
                  IN  IF b > a THEN b ELSE 0
        ok == {k \in 1..Len(UnitTokens) :
                  HasPrefixAt(Lower(s), token, UnitTokens[k]) /\ End(k) > 0}
    IN  IF ok = {} THEN 0 ELSE End(CHOOSE k \in ok : \A m \in ok : k <= m)

RECURSIVE RemoveSuites(_, _)
\* re.sub(r',?\s*(suite|ste|unit|#)\s*\d+', '', s, flags=re.IGNORECASE)
RemoveSuites(s, i) ==
    IF i > Len(s) THEN <<>>
    ELSE LET e == SuiteMatchEnd(s, i)
         IN  IF e > 0 THEN RemoveSuites(s, e)
             ELSE <<s[i]>> \o RemoveSuites(s, i + 1)

\* The key of group_by_address: the street without suite numbers, the city
\* and the state
AddressKey(provider) ==
    LET street == IF Truthy(Field(provider, "address_street"))
                  THEN provider.address_street
                  ELSE Field(provider, "address_full")
    IN  <<Lower(Strip(RemoveSuites(street, 1))), Lower(provider.address_city),
          [i \in 1..Len(provider.address_state) |->
              UpperChar(provider.address_state[i])]>>

\* group_by_address: the keys in the order of their first provider
RECURSIVE GroupKeys(_)
GroupKeys(healthcare_providers) ==
    IF healthcare_providers = <<>> THEN <<>>
    ELSE LET before == GroupKeys(SubSeq(healthcare_providers, 1,
                                        Len(healthcare_providers) - 1))
             key == AddressKey(healthcare_providers[Len(healthcare_providers)])
         IN  IF key \in Range(before) THEN before ELSE Append(before, key)

_should_merge_providers(group) ==
    LET phones == {group[i].phone : i \in {k \in 1..Len(group) :
                                             Truthy(Field(group[k], "phone"))}}
        parents == {group[i].parent_organization :
                      i \in {k \in 1..Len(group) :
                               Truthy(Field(group[k], "parent_organization"))}}
    IN  IF Cardinality(phones) > 1 THEN FALSE
        ELSE IF Cardinality(phones) = 1 THEN TRUE
        ELSE Cardinality(parents) = 1

\* The score of one record in _select_primary_provider
PrimaryScore(provider) ==
    LET name == Lower(provider.legal_name)
        Has(key) == Truthy(Field(provider, key))
    IN  (IF Has("npi") THEN 10 ELSE 0) + (IF Has("phone") THEN 5 ELSE 0)
        + (IF Has("email") THEN 5 ELSE 0)
        + (IF Has("location_website") THEN 5 ELSE 0)
        + (IF Has("franchise_id") THEN 3 ELSE 0)
        - (IF AnyIn({<<"f", "r", "a", "n", "c", "h", "i", "s", "i", "n", "g">>,
                     <<"f", "r", "a", "n", "c", "h", "i", "s", "e">>}, name) THEN 20 ELSE 0)
        - (IF AnyIn({<<"i", "n", "c">>, <<"l", "l", "c">>,
                     <<"c", "o", "r", "p">>}, name) THEN 5 ELSE 0)
        + (IF Contains(<<" ", "o", "f", " ">>, name) THEN 10 ELSE 0)

\* The index of the record with the highest score, the first of them
\* (the sort is stable)
_select_primary_provider(group) ==
    CHOOSE i \in 1..Len(group) :
        /\ \A k \in 1..Len(group) : PrimaryScore(group[i]) >= PrimaryScore(group[k])
        /\ \A k \in 1..(i - 1) : PrimaryScore(group[k]) < PrimaryScore(group[i])

\* The fields _merge_provider fills from the other record
FilledFields == {"npi", "email", "fax", "location_website", "franchise_id"}

_merge_provider(primary, other) ==
    LET other_name_lower == Lower(other.legal_name)
        aliases == IF primary.dba_names = NullArray THEN <<>>
                   ELSE primary.dba_names
        named == IF other.legal_name = primary.legal_name
                    \/ other.legal_name \in Range(aliases)
                 THEN primary
                 ELSE [primary EXCEPT !.dba_names = Append(aliases, other.legal_name)]
        related ==
            IF AnyIn({<<"f", "r", "a", "n", "c", "h", "i", "s", "i", "n", "g">>,
                      <<"f", "r", "a", "n", "c", "h", "i", "s", "e">>}, other_name_lower)
            THEN IF Truthy(Field(named, "parent_organization")) THEN named
                 ELSE [named EXCEPT !.parent_organization = other.legal_name]
            ELSE IF AnyIn({<<"r", "e", "i", "t">>,
                           <<"p", "r", "o", "p", "e", "r", "t", "i", "e", "s">>},
                          other_name_lower)
            THEN IF Truthy(Field(named, "real_estate_owner")) THEN named
                 ELSE [named EXCEPT !.real_estate_owner = other.legal_name]
            ELSE named
    IN  IF other.legal_name # primary.legal_name /\ primary.dba_names = NullArray
        THEN Raises("TypeError")
        ELSE Returns([f \in DOMAIN related |->
                        IF /\ f \in FilledFields
                           /\ ~Truthy(Field(related, f))
                           /\ Truthy(Field(other, f))
                        THEN other[f] ELSE related[f]])

RECURSIVE MergeInto(_, _, _)
\* The consolidation loop of deduplicate over the group from record k on
MergeInto(primary, group, k) ==
    IF k > Len(group) THEN Returns(primary)
    ELSE IF group[k].id = primary.id THEN MergeInto(primary, group, k + 1)
    ELSE LET Merged(m) == IF m.outcome = "raise" THEN m
                          ELSE MergeInto(m.value, group, k + 1)
         IN  Merged(_merge_provider(primary, group[k]))

RECURSIVE DeduplicateFrom(_, _, _)
\* The loop of deduplicate over the address groups from the g-th key on
DeduplicateFrom(healthcare_providers, keys, g) ==
    IF g > Len(keys) THEN Returns(<<>>)
    ELSE LET group == SelectSeq(healthcare_providers,
                                LAMBDA p : AddressKey(p) = keys[g])
             Rest(kept) ==
                 LET Later(rest) == IF rest.outcome = "raise" THEN rest
                                    ELSE Returns(kept \o rest.value)
                 IN  Later(DeduplicateFrom(healthcare_providers, keys, g + 1))
             Consolidated(primary) ==
                 IF primary.outcome = "raise" THEN primary
                 ELSE Rest(<<primary.value>>)
         IN  IF Len(group) = 1 \/ ~_should_merge_providers(group) THEN Rest(group)
             ELSE Consolidated(MergeInto(group[_select_primary_provider(group)],
                                         group, 1))

deduplicate(healthcare_providers) ==
    DeduplicateFrom(healthcare_providers, GroupKeys(healthcare_providers), 1)

\* str(e) of what a failed text-completion call or its reply raises in a stage
ModelCallFailed == "model call failed"
ReplyNotJson == "model reply is not JSON"

\* What interpret can hand to the orchestrator: it raises (the API call
\* fails, the reply is not JSON, or an error of its own such as a query
\* that is not a string), or a ParsedQuery
InterpreterOutcomes ==
    { [kind |-> "raise", error |-> e] :
        e \in {"interpreter", ModelCallFailed, ReplyNotJson} }
    \cup
    { [kind |-> "parsed", parsed |-> p] : p \in
        { ParsedQuery("search", <<ProviderQuery(q_ab, MISSING, MISSING)>>,
                      Filters(MISSING, MISSING), NULL, 90),
          ParsedQuery("search", <<ProviderQuery(q_cab, MISSING, MISSING)>>,
                      Filters(MA, MISSING), NULL, 90),
          ParsedQuery("research", <<ProviderQuery(q_ad, MISSING, MISSING)>>,
                      Filters(MISSING, Boston), NULL, 80),
          ParsedQuery("verify", <<ProviderQuery(<<>>, MISSING, MISSING)>>,
                      Filters(NULL, MISSING), NULL, 80),
          ParsedQuery("search", <<ProviderQuery(NULL, MISSING, MISSING)>>,
                      Filters(MISSING, MISSING), NULL, 80),
          ParsedQuery("search", <<ProviderQuery(q_ad, MISSING, MISSING)>>,
                      NoneDict, NULL, 80),
          ParsedQuery("search", <<>>, Filters(MISSING, MISSING), NULL, 50),
          ParsedQuery("clarify", <<>>, Filters(MISSING, MISSING), question, 30),
          ParsedQuery("add", <<ProviderQuery(n_ac, ph_61b, npi_1)>>,
                      Filters(MISSING, MISSING), NULL, 90),
          ParsedQuery("add", <<ProviderQuery(n_bd, MISSING, MISSING)>>,
                      Filters(MISSING, MISSING), NULL, 90),
          ParsedQuery("add", <<ProviderQuery(q_c, MISSING, npi_1)>>,
                      Filters(MISSING, MISSING), NULL, 90),
          ParsedQuery("add", <<ProviderQuery(n_my, MISSING, npi_1)>>,
                      Filters(MISSING, MISSING), NULL, 90),
          ParsedQuery("add", <<>>, Filters(MISSING, MISSING), NULL, 90),
          ParsedQuery("compare", <<ProviderQuery(q_ab, MISSING, MISSING),
                                   ProviderQuery(q_ad, MISSING, MISSING)>>,
                      Filters(MA, MISSING), NULL, 90),
          ParsedQuery("compare", <<ProviderQuery(q_ab, MISSING, MISSING)>>,
                      Filters(MISSING, MISSING), NULL, 90),
          ParsedQuery("compare", <<>>, Filters(MISSING, MISSING), NULL, 50),
          ParsedQuery("list", <<>>, Filters(MA, MISSING), NULL, 90) } }

OrchestrationResult(success, execution_path, intent, provider_list, confidence, steps_executed, warnings, clarification_question) ==
    [success |-> success, execution_path |-> execution_path, intent |-> intent,
     providers |-> provider_list, confidence |-> confidence,
     steps_executed |-> steps_executed, warnings |-> warnings,
     clarification_question |-> clarification_question]

_build_result(success, path, intent, provider_list, confidence, steps, warnings, clarification) ==
    OrchestrationResult(success, path, intent, provider_list, confidence, steps,
                        warnings, clarification)

\* A response that goes on as if a provider had been found
_build_clarification_response_guess(parsed, steps) ==
    _build_result(TRUE, "database_hit", parsed.intent, <<>>,
                  parsed.confidence, steps, <<>>, NULL)

_build_clarification_response(parsed, steps) ==
    _build_result(FALSE, "clarification_needed", parsed.intent, <<>>,
                  parsed.confidence, steps, <<>>, parsed.clarification_needed)

\* The except clause of process_query answers with the error response
\* instead of letting the exception through
_build_error_response_reraise(error, steps) ==
    [propagated |-> error]

_build_error_response(error, steps) ==
    _build_result(FALSE, "clarification_needed", "clarify", <<>>, 0, steps,
                  <<error>>, NULL)

\* The short-circuit after the store lookup taken for any non-empty result
DbShortCircuit_any(db_results) ==
    db_results # <<>>

\* The short-circuit after the store lookup with the exact-match bar
DbShortCircuit_exact(db_results) ==
    db_results # <<>> /\ db_results[1].confidence >= 95

\* `if db_results and db_results[0].confidence >= 0.85`
DbShortCircuit(db_results) ==
    db_results # <<>> /\ db_results[1].confidence >= 85

\* The short-circuit after semantic matching with the store's bar
SemanticShortCircuit_90(semantic_matches) ==
    semantic_matches # <<>> /\ semantic_matches[1].confidence >= 90

\* `if semantic_matches and semantic_matches[0].confidence >= 0.8`
SemanticShortCircuit(semantic_matches) ==
    semantic_matches # <<>> /\ semantic_matches[1].confidence >= 80

\* str(uuid): the text of a primary key; no registry identifier (at most ten
\* characters) equals it
UuidText(id) == <<"u", "u", "i", "d", "-">> \o <<ToString(id)>>

\* The record the semantic stage reports for a match:
\*   search(npi=match.provider_id)[0].provider if search(npi=...) else {...}
FullRecord(rows, m) ==
    LET found == search(rows, NULL, NULL, NULL, UuidText(m.provider_id),
                        NULL, NULL, TRUE, 10)
    IN  IF found # <<>> THEN found[1].provider
        ELSE [id |-> m.provider_id, legal_name |-> m.provider_name]

\* The dictionary add_provider reads its columns from, by dict.get
AsProviderData(d) ==
    Data(Get(d, "npi", NULL), Get(d, "legal_name", NULL), Get(d, "phone", NULL),
         NULL, Get(d, "address", NULL), Get(d, "city", NULL),
         Get(d, "state", NULL))

RECURSIVE SaveLocations(_, _, _, _, _, _)
\* The auto-save loop of _handle_search_intent from locations[i] on; replies
\* are the text-completion replies to the deduplication prompts
SaveLocations(rows, newId, locations, i, llm_client, replies) ==
    IF i > Len(locations)
    THEN [rows |-> rows, nextId |-> newId, raised |-> FALSE, locations |-> <<>>]
    ELSE LET location == locations[i]
             Stop == [rows |-> rows, nextId |-> newId, raised |-> TRUE,
                      locations |-> <<>>]
             Keep(saved_location, rest) ==
                 [rest EXCEPT !.locations = <<saved_location>> \o @]
             Added(add) ==
                 IF add.raised THEN Stop
                 ELSE Keep([location EXCEPT !.id = add.id],
                           SaveLocations(add.rows,
                               IF add.inserted THEN newId + 1 ELSE newId,
                               locations, i + 1, llm_client, replies))
             Checked(dup_check) ==
                 IF dup_check.outcome = "raise" THEN Stop
                 ELSE IF dup_check.outcome = "return" /\ dup_check.is_duplicate
                 THEN Keep(location,
                           SaveLocations(rows, newId, locations, i + 1,
                                         llm_client, replies))
                 ELSE Added(add_provider(rows, newId, AsProviderData(location)))
             Found(existing) ==
                 Checked(IF existing = <<>> THEN NoRuleVerdict
                         ELSE check_duplicate(location, existing[1].provider,
                                              llm_client, replies[i]))
         IN  Found(search(rows, NULL, NULL, NULL, NULL,
                          Get(location, "phone", NULL), NULL, TRUE, 1))

\* The query in flight, before interpret has been called
OrchIdle ==
    [pc |-> "idle", parsed |-> NoCall, steps |-> <<>>, calls |-> <<>>,
     warnings |-> <<>>, db_results |-> <<>>, candidates |-> <<>>,
     semantic_matches |-> <<>>, raised |-> "none"]

\* process_query returns r
Return(o, r) ==
    /\ orch' = [o EXCEPT !.pc = "idle"]
    /\ result' = r

\* A stage raised: the except clause of process_query
Except(o, stage) ==
    /\ orch' = [o EXCEPT !.pc = "idle", !.raised = stage]
    /\ result' = _build_error_response(stage, o.steps)

\* Step 1 of process_query: interpret, the clarification check and the
\* routing on the intent
Interpret(o) ==
    /\ orch.pc = "idle"
    /\ queries < MaxQueries
    /\ queries' = queries + 1
    /\ (o.kind = "raise" /\ o.error # "interpreter") => config.llm_client
    /\ LET started == [OrchIdle EXCEPT !.steps = <<"Step 1">>,
                                       !.calls = <<"interpret">>]
       IN  IF o.kind = "raise" THEN Except(started, o.error)
           ELSE IF Truthy(o.parsed.clarification_needed)
           THEN Return([started EXCEPT !.parsed = o.parsed],
                       _build_clarification_response(o.parsed, started.steps))
           ELSE /\ orch' = [started EXCEPT
                              !.parsed = o.parsed,
                              !.pc = IF o.parsed.intent \in {"add", "compare", "list"}
                                     THEN o.parsed.intent ELSE "search"]
                /\ result' = NoCall
    /\ UNCHANGED <<storeVars, dedupVars, last_result, config>>

\* Step 2 of _handle_search_intent: the store lookup, its short-circuit and
\* the choice of the candidates for semantic matching
StoreLookup(up) ==
    /\ orch.pc = "search"
    /\ LET parsed == orch.parsed
           f == parsed.filters
           looked == [orch EXCEPT !.steps = Append(@, "Step 2"),
                                  !.calls = Append(@, "search")]
           NoHit(db_results, candidates) ==
               /\ orch' = [looked EXCEPT
                             !.db_results = db_results,
                             !.steps = Append(@, "Step 3"),
                             !.calls = IF db_results = <<>>
                                       THEN Append(@, "search") ELSE @,
                             !.candidates = candidates,
                             !.pc = IF candidates # <<>> THEN "match"
                                    ELSE "research"]
               /\ UNCHANGED <<result, last_result>>
           Looked(db_results) ==
               IF DbShortCircuit(db_results)
               THEN /\ Return([looked EXCEPT !.db_results = db_results],
                          _build_result(TRUE, "database_hit", parsed.intent,
                              [i \in 1..Len(db_results) |-> db_results[i].provider],
                              db_results[1].confidence, looked.steps, <<>>, NULL))
                    /\ last_result' = db_results[1].provider
               ELSE NoHit(db_results,
                        [r \in DOMAIN db_results |-> db_results[r].provider]
                        \o (IF db_results # <<>> THEN <<>>
                            ELSE LET all_providers ==
                                         search(providers, NULL,
                                                Get(f, "state", NULL), NULL, NULL,
                                                NULL, NULL, TRUE, 50)
                                 IN  [i \in DOMAIN all_providers |->
                                         all_providers[i].provider]))
       IN  IF parsed.providers = <<>>
           THEN /\ Return([orch EXCEPT !.warnings = <<"No provider specified">>],
                          _build_result(FALSE, "clarification_needed",
                              parsed.intent, <<>>, 0, orch.steps,
                              <<"No provider specified">>, question))
                /\ UNCHANGED last_result
           ELSE IF IsNone(f)
           THEN /\ Except([orch EXCEPT !.steps = Append(@, "Step 2")],
                          "orchestrator")
                /\ UNCHANGED last_result
           ELSE IF ~up
           THEN /\ Except(looked, "store")
                /\ UNCHANGED last_result
           ELSE Looked(search(providers, Get(parsed.providers[1], "name", <<>>),
                              Get(f, "state", NULL), Get(f, "city", NULL),
                              NULL, NULL, Get(f, "parent_organization", NULL),
                              TRUE, 10))
    /\ UNCHANGED <<storeVars, dedupVars, config, queries>>

\* Step 3: semantic matching over the candidates and its short-circuit
SemanticMatching(up) ==
    /\ orch.pc = "match"
    /\ \E reply \in LlmMatchReplies(orch.candidates) :
       LET parsed == orch.parsed
           matched == [orch EXCEPT !.calls = Append(@, "match")]
           Found(semantic_matches, found) ==
               /\ Return([matched EXCEPT !.semantic_matches = semantic_matches,
                                         !.calls = Append(@, "search")],
                         _build_result(TRUE, "semantic_match", parsed.intent,
                             found, semantic_matches[1].confidence,
                             orch.steps, <<>>, NULL))
               /\ last_result' = found[1]
           Matched(r) ==
               IF r.outcome = "raise"
               THEN /\ Except(matched, IF r.error = "LLM" THEN ModelCallFailed
                                        ELSE "matcher")
                    /\ UNCHANGED last_result
               ELSE IF SemanticShortCircuit(r.value)
               THEN IF ~up
                    THEN /\ Except([matched EXCEPT
                                       !.semantic_matches = r.value,
                                       !.calls = Append(@, "search")],
                                   "store")
                         /\ UNCHANGED last_result
                    ELSE Found(r.value, [i \in 1..Len(r.value) |->
                                            FullRecord(providers, r.value[i])])
               ELSE /\ orch' = [matched EXCEPT !.semantic_matches = r.value,
                                               !.pc = "research"]
                    /\ UNCHANGED <<result, last_result>>
       IN  Matched(match(Get(parsed.providers[1], "name", <<>>),
                         orch.candidates, parsed.filters, 70,
                         config.llm_client, reply))
    /\ UNCHANGED <<storeVars, dedupVars, config, queries>>

\* Step 4 with the auto-save loop run whatever auto_save says
WebResearch_always_save(sources, replies) ==
    /\ orch.pc = "research"
    /\ LET parsed == orch.parsed
           researched == [orch EXCEPT !.steps = Append(@, "Step 4"),
                                      !.calls = Append(@, "research")]
           Saved(saved, r) ==
               /\ saved.nextId <= MaxRecords + 1
               /\ providers' = saved.rows
               /\ nextId' = saved.nextId
               /\ IF saved.raised
                  THEN /\ Except(researched, "auto_save")
                       /\ UNCHANGED last_result
                  ELSE /\ Return(researched,
                              _build_result(TRUE, "web_research", parsed.intent,
                                  saved.locations, r.value.confidence,
                                  researched.steps, r.value.warnings, NULL))
                       /\ last_result' = saved.locations[1]
           Researched(r) ==
               IF r.outcome = "raise"
               THEN /\ Except(researched, "researcher")
                    /\ UNCHANGED <<providers, nextId, last_result>>
               ELSE IF r.value.locations = <<>>
               THEN /\ Return(researched,
                              _build_result(FALSE, "web_research", parsed.intent,
                                  <<>>, 0, researched.steps, r.value.warnings, NULL))
                    /\ UNCHANGED <<providers, nextId, last_result>>
               ELSE Saved(IF TRUE
                          THEN SaveLocations(providers, nextId, r.value.locations,
                                             1, config.llm_client, replies)
                          ELSE [rows |-> providers, nextId |-> nextId,
                                raised |-> FALSE, locations |-> r.value.locations],
                          r)
       IN  Researched(research(sources))
    /\ UNCHANGED <<history, uwh, uwhLog, changeOps, storeOut, dedupVars,
                   config, queries>>

\* Step 4: web research, the auto-save loop and the result
WebResearch(sources, replies) ==
    /\ orch.pc = "research"
    /\ LET parsed == orch.parsed
           researched == [orch EXCEPT !.steps = Append(@, "Step 4"),
                                      !.calls = Append(@, "research")]
           Saved(saved, r) ==
               /\ saved.nextId <= MaxRecords + 1
               /\ providers' = saved.rows
               /\ nextId' = saved.nextId
               /\ IF saved.raised
                  THEN /\ Except(researched, "auto_save")
                       /\ UNCHANGED last_result
                  ELSE /\ Return(researched,
                              _build_result(TRUE, "web_research", parsed.intent,
                                  saved.locations, r.value.confidence,
                                  researched.steps, r.value.warnings, NULL))
                       /\ last_result' = saved.locations[1]
           Researched(r) ==
               IF r.outcome = "raise"
               THEN /\ Except(researched, "researcher")
                    /\ UNCHANGED <<providers, nextId, last_result>>
               ELSE IF r.value.locations = <<>>
               THEN /\ Return(researched,
                              _build_result(FALSE, "web_research", parsed.intent,
                                  <<>>, 0, researched.steps, r.value.warnings, NULL))
                    /\ UNCHANGED <<providers, nextId, last_result>>
               ELSE Saved(IF config.auto_save
                          THEN SaveLocations(providers, nextId, r.value.locations,
                                             1, config.llm_client, replies)
                          ELSE [rows |-> providers, nextId |-> nextId,
                                raised |-> FALSE, locations |-> r.value.locations],
                          r)
       IN  Researched(research(sources))
    /\ UNCHANGED <<history, uwh, uwhLog, changeOps, storeOut, dedupVars,
                   config, queries>>

\* _handle_add_intent
HandleAdd(reply, up) ==
    /\ orch.pc = "add"
    /\ LET parsed == orch.parsed
           o == [orch EXCEPT !.steps = Append(@, "Step 2")]
           provider_data == parsed.providers[1]
           Added(add, called) ==
               /\ add.inserted => nextId <= MaxRecords
               /\ providers' = add.rows
               /\ nextId' = IF add.inserted THEN nextId + 1 ELSE nextId
               /\ IF add.raised THEN Except(called, "store")
                  ELSE Return(called,
                           _build_result(TRUE, "database_hit", parsed.intent,
                               <<[provider_data EXCEPT !.id = add.id]>>, 95,
                               o.steps, <<>>, NULL))
           Checked(existing, dup_check) ==
               IF dup_check.outcome = "raise"
               THEN /\ Except([o EXCEPT
                                  !.calls = @ \o <<"search", "check_duplicate">>],
                              "researcher")
                    /\ UNCHANGED <<providers, nextId>>
               ELSE IF dup_check.outcome = "return" /\ dup_check.is_duplicate
               THEN /\ Return([o EXCEPT
                                  !.calls = @ \o <<"search", "check_duplicate">>],
                              _build_result(FALSE, "database_hit", parsed.intent,
                                  <<existing[1].provider>>, dup_check.confidence,
                                  o.steps, <<>>, NULL))
                    /\ UNCHANGED <<providers, nextId>>
               ELSE Added(add_provider(providers, nextId,
                              Data(Get(provider_data, "npi", NULL),
                                   Get(provider_data, "name", NULL),
                                   Get(provider_data, "phone", NULL), NULL,
                                   Get(provider_data, "address", NULL),
                                   Get(provider_data, "city", NULL),
                                   Get(provider_data, "state", NULL))),
                          [o EXCEPT !.calls =
                              @ \o (IF existing = <<>> THEN <<"search">>
                                    ELSE <<"search", "check_duplicate">>)
                                \o <<"add_provider">>])
           Found(existing) ==
               Checked(existing,
                       IF existing = <<>> THEN NoRuleVerdict
                       ELSE check_duplicate(provider_data, existing[1].provider,
                                            config.llm_client, reply))
       IN  IF parsed.providers = <<>>
           THEN /\ Return([o EXCEPT !.warnings = <<"No provider data to add">>],
                          _build_result(FALSE, "clarification_needed",
                              parsed.intent, <<>>, 0, o.steps,
                              <<"No provider data to add">>, question))
                /\ UNCHANGED <<providers, nextId>>
           ELSE IF ~up
           THEN /\ Except([o EXCEPT !.calls = Append(@, "search")], "store")
                /\ UNCHANGED <<providers, nextId>>
           ELSE Found(search(providers, Get(provider_data, "name", <<>>),
                             NULL, NULL, NULL, Get(provider_data, "phone", NULL),
                             NULL, TRUE, 5))
    /\ UNCHANGED <<history, uwh, uwhLog, changeOps, storeOut, dedupVars,
                   last_result, config, queries>>

\* _handle_compare_intent
HandleCompare(up) ==
    /\ orch.pc = "compare"
    /\ LET parsed == orch.parsed
           o == [orch EXCEPT !.steps = Append(@, "Step 2")]
           f == parsed.filters
           queried == Take(parsed.providers, 5)
           comparison_results ==
               [i \in 1..Len(queried) |->
                   LET results == search(providers,
                                     Get(queried[i], "name", NULL),
                                     Get(f, "state", NULL), NULL, NULL, NULL,
                                     NULL, TRUE, 10)
                   IN  [query |-> Get(queried[i], "name", NULL),
                        results |-> [k \in 1..Len(results) |->
                                        results[k].provider]]]
       IN  IF Len(parsed.providers) < 2
           THEN Return(o, _build_result(FALSE, "clarification_needed",
                              parsed.intent, <<>>, 0, o.steps, <<>>, question))
           ELSE IF ~up
           THEN Except([o EXCEPT !.calls = Append(@, "search")], "store")
           ELSE Return([o EXCEPT !.calls = Append(@, "search")],
                       _build_result(TRUE, "multi_step", parsed.intent,
                           comparison_results, 85, o.steps, <<>>, NULL))
    /\ UNCHANGED <<storeVars, dedupVars, last_result, config, queries>>

\* _handle_list_intent
HandleList(up) ==
    /\ orch.pc = "list"
    /\ LET parsed == orch.parsed
           o == [orch EXCEPT !.steps = Append(@, "Step 2"),
                             !.calls = Append(@, "search")]
           f == parsed.filters
           results == search(providers, NULL, Get(f, "state", NULL),
                             Get(f, "city", NULL), NULL, NULL,
                             Get(f, "parent_organization", NULL), TRUE, 100)
       IN  IF ~up THEN Except(o, "store")
           ELSE Return(o, _build_result(TRUE, "database_hit", parsed.intent,
                              [i \in 1..Len(results) |-> results[i].provider],
                              90, o.steps, <<>>, NULL))
    /\ UNCHANGED <<storeVars, dedupVars, last_result, config, queries>>

\* reset: the result that references resolve against is forgotten
Reset ==
    /\ orch.pc = "idle"
    /\ last_result' = NoProvider
    /\ UNCHANGED <<storeVars, dedupVars, config, orch, result, queries>>

\* The provider_data the store holds when the orchestrator is constructed
OrchCatalog ==
    { Data(npi_1, n_ab, ph_61, n_bd, addr_1, Boston, MA),
      [Data(npi_2, n_ac, ph_72, <<>>, addr_1s, Albany, NY)
          EXCEPT !.dba_names = <<q_ad>>],
      Data(NULL, n_bd, NULL, NULL, NULL, NULL, NULL) }

RECURSIVE Stored(_)
\* The table after add_provider of each element of ds, in order
Stored(ds) ==
    IF ds = <<>> THEN <<>>
    ELSE LET before == Stored(SubSeq(ds, 1, Len(ds) - 1))
         IN  add_provider(before, Len(before) + 1, ds[Len(ds)]).rows

InitialTables ==
    { Stored(ds) : ds \in UNION { [1..n -> OrchCatalog] : n \in 0..MaxRecords } }

OrchInit ==
    /\ providers \in InitialTables
    /\ nextId = Len(providers) + 1
    /\ history = <<>>
    /\ uwh = Idle
    /\ uwhLog = {}
    /\ changeOps = [id \in ProviderIds |-> 0]
    /\ storeOut = [op |-> "none", outcome |-> "ok"]
    /\ dedupIn = NoCall
    /\ dedupOut = NoCall
    /\ config \in [auto_save : BOOLEAN, llm_client : BOOLEAN]
    /\ orch = OrchIdle
    /\ result = NoCall
    /\ last_result = NoProvider
    /\ queries = 0

OrchNext ==
    \/ \E o \in InterpreterOutcomes : Interpret(o)
    \/ \E up \in BOOLEAN : StoreLookup(up)
    \/ \E up \in BOOLEAN : SemanticMatching(up)
    \/ \E sources \in ResearchSources,
          replies \in [1..MaxLocations -> LlmDedupReplies] :
            WebResearch(sources, replies)
    \/ \E reply \in LlmDedupReplies, up \in BOOLEAN : HandleAdd(reply, up)
    \/ \E up \in BOOLEAN : HandleCompare(up)
    \/ \E up \in BOOLEAN : HandleList(up)
    \/ Reset

\* A resolver about to be called on a candidate and a stored row; the store
\* and the orchestrator are not used
DedupInit ==
    /\ providers = <<>>
    /\ nextId = 1
    /\ history = <<>>
    /\ uwh = Idle
    /\ uwhLog = {}
    /\ changeOps = [id \in ProviderIds |-> 0]
    /\ storeOut = [op |-> "none", outcome |-> "ok"]
    /\ \E new \in Candidates, existing \in ExistingRows, llm_client \in BOOLEAN :
          dedupIn = [pc |-> "called", new |-> new, existing |-> existing,
                     llm_client |-> llm_client]
    /\ dedupOut = NoCall
    /\ config = [auto_save |-> FALSE, llm_client |-> FALSE]
    /\ orch = OrchIdle
    /\ result = NoCall
    /\ last_result = NoProvider
    /\ queries = 0

\* An empty store; the resolver and the orchestrator are not used
StoreInit ==
    /\ providers = <<>>
    /\ nextId = 1
    /\ history = <<>>
    /\ uwh = Idle
    /\ uwhLog = {}
    /\ changeOps = [id \in ProviderIds |-> 0]
    /\ storeOut = [op |-> "none", outcome |-> "ok"]
    /\ dedupIn = NoCall
    /\ dedupOut = NoCall
    /\ config = [auto_save |-> FALSE, llm_client |-> FALSE]
    /\ orch = OrchIdle
    /\ result = NoCall
    /\ last_result = NoProvider
    /\ queries = 0

StoreNext ==
    \/ \E op \in {"search", "add_provider", "update_provider"} :
            StoreUnreachable(op)
    \/ \E a \in SearchCalls : Search(a)
    \/ \E d \in Catalog : AddProvider(d)
    \/ \E id \in ProviderIds, c \in Changes :
            UpdateProvider(id, c.field_name, c.new_value)
    \/ \E id \in ProviderIds : DeleteProvider(id)

HistoryNext ==
    \/ \E d \in HistoryCatalog : AddProvider(d)
    \/ \E id \in ProviderIds, c \in Changes :
            UpdateProvider(id, c.field_name, c.new_value)
    \/ \E id \in ProviderIds : DeleteProvider(id)
    \/ \E id \in ProviderIds, c \in Changes : RecordHistory(id, c, NULL)
    \/ \E id \in ProviderIds : GetProviderHistory(id)
    \/ \E id \in ProviderIds, c \in Changes : UwhSelect(id, c)
    \/ UwhRecord
    \/ UwhUpdate
    \/ UwhUpdateUnreachable

q_ny == <<"n", "y">>

\* The candidate rows handed to the matcher
MatchRows ==
    { Row(1, npi_1, n_ab, <<>>, ph_61, n_bd, addr_1, Boston, MA),
      Row(2, npi_2, n_ac, <<q_ad>>, ph_72, <<>>, addr_1s, Albany, NY),
      Row(3, NULL, n_bd, NullArray, NULL, NULL, NULL, NULL, NULL) }

\* The calls of match
MatchCalls ==
    { [pc |-> "match", query |-> q, candidates |-> c, location_filter |-> f,
       threshold |-> t, llm_client |-> l] :
        q \in {q_ab, q_ad, q_acd, q_ny},
        c \in UNION { [1..n -> MatchRows] : n \in 0..MaxCandidates },
        f \in {Filters(MISSING, MISSING), Filters(MA, MISSING)},
        t \in {70, 90},
        l \in BOOLEAN }

\* A call of match; reply is what the model answers if it is asked
Match ==
    /\ dedupIn.pc = "match"
    /\ dedupOut = NoCall
    /\ \E reply \in IF dedupIn.candidates = <<>> THEN {[kind |-> "unparsable"]}
                     ELSE LlmMatchReplies(dedupIn.candidates) :
          LET Asked(r) == [x \in DOMAIN r \cup {"reply"} |->
                              IF x = "reply" THEN reply ELSE r[x]]
          IN  dedupOut' = Asked(match(dedupIn.query, dedupIn.candidates,
                                      dedupIn.location_filter, dedupIn.threshold,
                                      dedupIn.llm_client, reply))
    /\ UNCHANGED <<storeVars, dedupIn, orchVars>>

\* The queries, conversation turns, user contexts and last results the
\* interpreter is called with
InterpretedQueries ==
    { <<"w", "h", "a", "t", " ", "a", "b", "o", "u", "t", " ", "t", "h", "e", "i", "r", " ", "l", "o", "c", "a", "t", "i", "o", "n", "s">>,
      <<"f", "i", "n", "d", " ", "c", "k", " ", "f", "o", "r", " ", "t", "h", "e", "m">>,
      <<"a", "d", "d", " ", "t", "h", "a", "t">>,
      <<"i", "s", " ", "i", "t", " ", "o", "p", "e", "n">>,
      <<"f", "i", "n", "d", " ", "h", "o", "m", "e", " ", "i", "n", "s", "t", "e", "a", "d", " ", "n", "e", "a", "r", " ", "m", "e">>,
      <<"l", "i", "s", "t", " ", "a", "l", "l", " ", "i", "n", " ", "D", "a", "n", " ", "M", "A">>,
      <<"c", "o", "m", "p", "a", "r", "e", " ", "c", "k", " ", "v", "s", " ", "h", "o", "m", "e", " ", "i", "n", "s", "t", "e", "a", "d">> }

Turn(role, content) == [role |-> role, content |-> content]

Turns ==
    { Turn(role, content) :
        role \in {"user", "assistant"},
        content \in { <<"f", "o", "u", "n", "d", " ", "h", "o", "m", "e", " ", "i", "n", "s", "t", "e", "a", "d", " ", "m", "e", "t", "r", "o", "w", "e", "s", "t">>,
                      <<"c", "o", "m", "f", "o", "r", "t", " ", "k", "e", "e", "p", "e", "r", "s", " ", "a", "n", "d", " ", "c", "k">>,
                      <<"o", "k">> } }

Conversations == UNION { [1..n -> Turns] : n \in 0..MaxTurns }

UserContexts ==
    { [location |-> MISSING],
      [location |-> <<"D", "a", "n", ",", " ", "M", "A">>],
      [location |-> <<"a", ",", "b", ",", "c">>] }

LastResults ==
    { NoProvider, loc_a,
      Row(1, npi_1, n_ab, <<>>, ph_61, n_bd, addr_1, Boston, MA) }

\* A call of interpret without a client
SimulateInterpretation ==
    /\ dedupIn.pc = "interpret"
    /\ dedupOut = NoCall
    /\ dedupOut' = _simulate_interpretation(dedupIn.user_query,
                       dedupIn.conversation_history, dedupIn.user_context,
                       dedupIn.last_result)
    /\ UNCHANGED <<storeVars, dedupIn, orchVars>>

\* A researcher about to be called; the store and the orchestrator are not
\* used
ResearcherInit ==
    /\ providers = <<>>
    /\ nextId = 1
    /\ history = <<>>
    /\ uwh = Idle
    /\ uwhLog = {}
    /\ changeOps = [id \in ProviderIds |-> 0]
    /\ storeOut = [op |-> "none", outcome |-> "ok"]
    /\ dedupIn \in { [pc |-> "deduplicate", locations |-> l] : l \in LocationLists }
            \cup { [pc |-> "legacy", locations |-> l, llm_client |-> c] :
                     l \in LegacyLists, c \in BOOLEAN }
            \cup { [pc |-> "research", urls |-> u] : u \in UrlLists }
    /\ dedupOut = NoCall
    /\ config = [auto_save |-> FALSE, llm_client |-> FALSE]
    /\ orch = OrchIdle
    /\ result = NoCall
    /\ last_result = NoProvider
    /\ queries = 0

ResearcherNext ==
    \/ DeduplicateLocations
    \/ LegacyDeduplicate
    \/ Research

ResearcherSpec == ResearcherInit /\ [][ResearcherNext]_vars

\* A matcher about to be called
MatcherInit ==
    /\ providers = <<>>
    /\ nextId = 1
    /\ history = <<>>
    /\ uwh = Idle
    /\ uwhLog = {}
    /\ changeOps = [id \in ProviderIds |-> 0]
    /\ storeOut = [op |-> "none", outcome |-> "ok"]
    /\ dedupIn \in MatchCalls
    /\ dedupOut = NoCall
    /\ config = [auto_save |-> FALSE, llm_client |-> FALSE]
    /\ orch = OrchIdle
    /\ result = NoCall
    /\ last_result = NoProvider
    /\ queries = 0

MatcherNext ==
    \/ Match

MatcherSpec == MatcherInit /\ [][MatcherNext]_vars

\* An interpreter without a client about to be called
\* ------------------------------------------------------------------------
\* Concurrent clients of update_provider_with_history: each client has its
\* own manager and autocommit connection to the one store
\* ------------------------------------------------------------------------

Clients == 1..MaxClients

\* The changes the clients make, each field with two new values
ClientChanges ==
    { [field_name |-> f, change_type |-> "update", new_value |-> v,
       effective_date |-> 0] :
        f \in {"legal_name", "phone"}, v \in {n_bd, n_my} }

\* The marker in uwhLog of two calls having been in flight at once
Overlap == [hid |-> 0, field |-> "overlap"]

\* SELECT the current value ...
ClientSelect(p, id, c) ==
    /\ uwh[p].pc = "idle"
    /\ Len(history) + Cardinality({q \in Clients : uwh[q].pc # "idle"})
         < MaxHistory
    /\ IF RowIndex(providers, id) = {}
       THEN /\ storeOut' = [op |-> "update_provider_with_history",
                            outcome |-> "false"]
            /\ UNCHANGED <<uwh, uwhLog>>
       ELSE LET row == providers[CHOOSE i \in RowIndex(providers, id) : TRUE]
            IN  /\ uwh' = [uwh EXCEPT ![p] =
                              [pc |-> "selected", provider_id |-> id,
                               change |-> c, old_value |-> row[c.field_name],
                               hid |-> 0]]
                /\ uwhLog' = IF \E q \in Clients : uwh[q].pc # "idle"
                             THEN uwhLog \cup {Overlap} ELSE uwhLog
                /\ UNCHANGED storeOut
    /\ UNCHANGED <<providers, nextId, history, changeOps>>
    /\ UNCHANGED nonStoreVars

\* ... INSERT the history entry ...
ClientRecord(p) ==
    /\ uwh[p].pc = "selected"
    /\ LET c == uwh[p].change
           r == record_history(history, providers, uwh[p].provider_id,
                               c.change_type, c.field_name,
                               IF Truthy(uwh[p].old_value) THEN uwh[p].old_value
                               ELSE NULL,
                               c.new_value, c.effective_date)
       IN  /\ history' = r.hist
           /\ uwh' = [uwh EXCEPT ![p].pc = "recorded", ![p].hid = r.id]
           /\ changeOps' = [changeOps EXCEPT ![uwh[p].provider_id] = @ + 1]
    /\ UNCHANGED <<providers, nextId, uwhLog, storeOut>>
    /\ UNCHANGED nonStoreVars

\* ... UPDATE the provider row.
ClientUpdate(p) ==
    /\ uwh[p].pc = "recorded"
    /\ LET r == update_provider(providers, uwh[p].provider_id,
                                uwh[p].change.field_name,
                                uwh[p].change.new_value)
       IN  /\ providers' = r.rows
           /\ storeOut' = [op |-> "update_provider_with_history",
                           outcome |-> IF r.raised THEN "raise" ELSE "ok"]
    /\ uwh' = [uwh EXCEPT ![p] = Idle]
    /\ UNCHANGED <<nextId, history, uwhLog, changeOps>>
    /\ UNCHANGED nonStoreVars

ClientsInit ==
    /\ providers \in {Stored(<<d>>) : d \in HistoryCatalog}
    /\ nextId = 2
    /\ history = <<>>
    /\ uwh = [p \in Clients |-> Idle]
    /\ uwhLog = {}
    /\ changeOps = [id \in ProviderIds |-> 0]
    /\ storeOut = [op |-> "none", outcome |-> "ok"]
    /\ dedupIn = NoCall
    /\ dedupOut = NoCall
    /\ config = [auto_save |-> FALSE, llm_client |-> FALSE]
    /\ orch = OrchIdle
    /\ result = NoCall
    /\ last_result = NoProvider
    /\ queries = 0

ClientsNext ==
    \/ \E p \in Clients, id \in ProviderIds, c \in ClientChanges :
            ClientSelect(p, id, c)
    \/ \E p \in Clients : ClientRecord(p)
    \/ \E p \in Clients : ClientUpdate(p)

ClientsSpec == ClientsInit /\ [][ClientsNext]_vars

\* Inputs of the enrichment pipeline: records of one city whose streets
\* differ at most by a suite number, or by the house number
en_of == <<"a", "c", " ", "o", "f", " ", "b">>
en_inc == <<"a", "c", " ", "i", "n", "c">>
en_fr == <<"a", "c", " ", "f", "r", "a", "n", "c", "h", "i", "s", "i", "n", "g">>
e_1 == <<"e", "@", "x">>
st_suite == <<"1", " ", "m", ",", " ", "s", "t", "e", " ", "2">>
st_2 == <<"2", " ", "m">>

ExportedRecords(id) ==
    { Exported(id, n, ph, d[1], d[2], dba, d[3], st) :
        n \in {en_of, en_inc, en_fr}, ph \in {NULL, ph_72, ph_61},
        d \in {<<NULL, NULL, NULL>>, <<npi_1, e_1, n_bd>>},
        dba \in {<<>>, NullArray}, st \in {addr_1, st_suite, st_2} }

ExportedLists ==
    UNION { {l \in [1..n -> UNION {ExportedRecords(i) : i \in 1..n}] :
                \A i \in 1..n : l[i].id = i} : n \in 0..MaxProviders }

Deduplicate ==
    /\ dedupIn.pc = "enrich"
    /\ dedupOut = NoCall
    /\ dedupOut' = [pc |-> "enrich",
                    result |-> deduplicate(dedupIn.healthcare_providers)]
    /\ UNCHANGED <<storeVars, dedupIn, config, orchVars>>

EnricherInit ==
    /\ providers = <<>>
    /\ nextId = 1
    /\ history = <<>>
    /\ uwh = Idle
    /\ uwhLog = {}
    /\ changeOps = [id \in ProviderIds |-> 0]
    /\ storeOut = [op |-> "none", outcome |-> "ok"]
    /\ dedupIn \in { [pc |-> "enrich", healthcare_providers |-> l] :
                        l \in ExportedLists }
    /\ dedupOut = NoCall
    /\ config = [auto_save |-> FALSE, llm_client |-> FALSE]
    /\ orch = OrchIdle
    /\ result = NoCall
    /\ last_result = NoProvider
    /\ queries = 0

EnricherNext ==
    \/ Deduplicate

EnricherSpec == EnricherInit /\ [][EnricherNext]_vars

InterpreterInit ==
    /\ providers = <<>>
    /\ nextId = 1
    /\ history = <<>>
    /\ uwh = Idle
    /\ uwhLog = {}
    /\ changeOps = [id \in ProviderIds |-> 0]
    /\ storeOut = [op |-> "none", outcome |-> "ok"]
    /\ dedupIn \in { [pc |-> "interpret", user_query |-> q,
                      conversation_history |-> h, user_context |-> c,
                      last_result |-> l] :
                        q \in InterpretedQueries, h \in Conversations,
                        c \in UserContexts, l \in LastResults }
    /\ dedupOut = NoCall
    /\ config = [auto_save |-> FALSE, llm_client |-> FALSE]
    /\ orch = OrchIdle
    /\ result = NoCall
    /\ last_result = NoProvider
    /\ queries = 0

InterpreterNext ==
    \/ SimulateInterpretation

InterpreterSpec == InterpreterInit /\ [][InterpreterNext]_vars

StoreSpec == StoreInit /\ [][StoreNext]_vars

HistorySpec == StoreInit /\ [][HistoryNext]_vars

DedupSpec == DedupInit /\ [][DedupNext]_vars

Spec == OrchInit /\ [][OrchNext]_vars

\* ------------------------------------------------------------------------
\* Properties of the record store
\* ------------------------------------------------------------------------

\* C5: a search that supplies an external identifier matching a stored record
\* returns only exact-identifier results with confidence 1.0 for that record,
\* whatever text, phone, state, city or parent organisation is supplied too.
ExactNpiOutranks ==
    ( /\ storeOut.op = "search" /\ storeOut.outcome = "ok"
      /\ Truthy(storeOut.args.npi)
      /\ HasNpi(providers, storeOut.args.npi) )
    => /\ storeOut.results # <<>>
       /\ \A i \in 1..Len(storeOut.results) :
            /\ storeOut.results[i].match_type = "exact_npi"
            /\ storeOut.results[i].confidence = 100
            /\ storeOut.results[i].provider.npi = storeOut.args.npi

\* C5 witness: the identifier matches one record while the phone and the text
\* supplied in the same call match another one.
ExactNpiOutranksWitness ==
    /\ storeOut.op = "search" /\ storeOut.outcome = "ok"
    /\ HasNpi(providers, storeOut.args.npi)
    /\ Truthy(storeOut.args.phone) /\ Truthy(storeOut.args.query)
    /\ \E i \in 1..Len(providers) :
          /\ providers[i].npi # storeOut.args.npi
          /\ providers[i].phone # NULL
          /\ DigitsOnly(providers[i].phone) = DigitsOnly(storeOut.args.phone)
    /\ storeOut.results # <<>>

\* C6: the store never holds two records with the same identifier, and an
\* add whose identifier is already stored updates that record and returns
\* its id instead of creating a record.
UpsertByIdentifier ==
    /\ \A i, j \in 1..Len(providers) :
          (i # j /\ providers[i].npi # NULL) => providers[i].npi # providers[j].npi
    /\ ( /\ storeOut.op = "add_provider" /\ storeOut.outcome = "ok"
         /\ HasNpi(storeOut.table, storeOut.data.npi) )
       => /\ Len(providers) = Len(storeOut.table)
          /\ \A i \in 1..Len(providers) :
                /\ providers[i].id = storeOut.table[i].id
                /\ storeOut.table[i].npi = storeOut.data.npi
                   => /\ storeOut.id = providers[i].id
                      /\ providers[i].legal_name = storeOut.data.legal_name

\* C6 witness: an add with a stored identifier and a new legal name went
\* through after the table had been changed by other operations.
UpsertByIdentifierWitness ==
    /\ storeOut.op = "add_provider" /\ storeOut.outcome = "ok"
    /\ \E i \in 1..Len(storeOut.table) :
          /\ storeOut.table[i].npi = storeOut.data.npi
          /\ storeOut.table[i].npi # NULL
          /\ storeOut.table[i].legal_name # storeOut.data.legal_name
    /\ Len(providers) = MaxRecords

\* C7: history is append-only: a provider's history holds exactly one entry
\* per completed change operation, and every entry once returned for a
\* provider is returned unchanged after every later store operation.
HistoryAppendOnly ==
    /\ [](\A id \in ProviderIds :
            Len(get_provider_history(history, id)) = changeOps[id])
    /\ [][\A id \in ProviderIds :
            Range(get_provider_history(history, id))
                \subseteq Range(get_provider_history(history', id))]_vars

\* C7 witness: a provider's history is read after several change operations
\* on it.
HistoryAppendOnlyWitness ==
    /\ storeOut.op = "get_provider_history"
    /\ changeOps[storeOut.provider_id] = MaxHistory
    /\ Len(storeOut.entries) = MaxHistory

\* C8: the history-tracked update is atomic: once a call has ended, normally
\* or by an exception, every history entry it wrote has its field update
\* applied.
AtomicUpdateWithHistory ==
    NoCallInFlight => \A e \in uwhLog : e.field = "written"

\* ------------------------------------------------------------------------
\* Properties of the identity resolver
\* ------------------------------------------------------------------------
SameNpi ==
    /\ dedupIn.pc = "called"
    /\ Truthy(Get(dedupIn.new, "npi", NULL))
    /\ Get(dedupIn.new, "npi", NULL) = dedupIn.existing.npi

\* C9: check_duplicate returns is_duplicate = true for every pair of records
\* that share a non-empty registry identifier, whatever their phones,
\* addresses and cities are.
SameNpiIsDuplicate ==
    (SameNpi /\ dedupOut # NoCall)
    => (dedupOut.outcome = "return" /\ dedupOut.is_duplicate)

\* C10: whenever two records share a registry identifier, the verdict that
\* check_duplicate returns is the identifier rule's, with confidence 1.0,
\* also when the phone numbers or the addresses match as well.
NpiRuleFirst ==
    (SameNpi /\ dedupOut # NoCall /\ dedupOut.outcome = "return")
    => (dedupOut.reason = "Same NPI" /\ dedupOut.confidence = 100)

\* ------------------------------------------------------------------------
\* Properties of the orchestrator
\* ------------------------------------------------------------------------
Called(stage) == \E i \in 1..Len(orch.calls) : orch.calls[i] = stage

CalledBefore(first, second) ==
    \A i \in 1..Len(orch.calls) :
        orch.calls[i] = second => \E j \in 1..(i - 1) : orch.calls[j] = first

Returned == orch.pc = "idle" /\ result # NoCall

\* C1: for a search-type intent, when the store lookup returns a non-empty
\* list whose first result has confidence >= 0.85, the query ends there:
\* neither the semantic matcher's match nor the web researcher's research is
\* invoked for that query.
StoreHitShortCircuits ==
    (orch.db_results # <<>> /\ orch.db_results[1].confidence >= 85)
    => /\ Returned
       /\ ~Called("match")
       /\ ~Called("research")

\* C1 witness: a query returned from the store lookup on a first result whose
\* confidence is at the bar but below an exact match's.
StoreHitShortCircuitsWitness ==
    /\ Returned
    /\ orch.db_results # <<>>
    /\ orch.db_results[1].confidence \in {85, 90}
    /\ result.success
    /\ result.execution_path = "database_hit"

WeakStoreResultGoesToMatcher ==
    (orch.db_results # <<>> /\ orch.db_results[1].confidence < 85)
    => /\ orch.pc \in {"match", "research", "idle"}
       /\ orch.candidates = [i \in DOMAIN orch.db_results |->
                                orch.db_results[i].provider]
       /\ orch.pc = "match" => (result = NoCall /\ ~Called("research"))
       /\ orch.pc # "match" => Called("match")
       /\ CalledBefore("match", "research")
       /\ Returned => result.execution_path # "database_hit"

\* C3 witness: a store lookup whose first result is a 0.5 match was followed
\* by the semantic matcher and the query has returned.
WeakStoreResultGoesToMatcherWitness ==
    /\ orch.db_results # <<>>
    /\ orch.db_results[1].confidence = 50
    /\ Called("match")
    /\ Returned

\* C4: whatever the interpreter, the store, the matcher or the researcher
\* raises while process_query runs, process_query does not raise: it
\* returns a result with success = false in the clarification-needed shape
\* whose warnings hold the failure's description.
ExceptionsBecomeResults ==
    orch.raised # "none"
    => /\ orch.pc = "idle"
       /\ "propagated" \notin DOMAIN result
       /\ "success" \in DOMAIN result
       /\ result.success = FALSE
       /\ result.execution_path = "clarification_needed"
       /\ result.clarification_question = NULL
       /\ result.providers = <<>>
       /\ \E i \in 1..Len(result.warnings) : result.warnings[i] = orch.raised

\* C4 witness: the researcher raised in the second query, after the earlier
\* stages of that query had run.
ExceptionsBecomeResultsWitness ==
    /\ orch.raised = "researcher"
    /\ Called("match")
    /\ Called("research")
    /\ queries = MaxQueries
    /\ "success" \in DOMAIN result

\* ------------------------------------------------------------------------
\* Properties of the identity resolver's rules
\* ------------------------------------------------------------------------
PhoneText(d) ==
    IF Get(d, "phone", <<>>) = NULL THEN <<>> ELSE Get(d, "phone", <<>>)

SamePhone ==
    /\ dedupIn.pc = "called"
    /\ DigitsOnly(PhoneText(dedupIn.new)) # <<>>
    /\ DigitsOnly(PhoneText(dedupIn.new)) = DigitsOnly(PhoneText(dedupIn.existing))

\* C11: two records whose phone numbers have the same non-empty digits are
\* judged duplicates with confidence 0.95 and a reason naming the phone,
\* whatever the formatting of the phones and the suite numbers of the
\* addresses are.
SamePhoneIsDuplicate ==
    (SamePhone /\ dedupOut # NoCall)
    => /\ dedupOut.outcome = "return"
       /\ dedupOut.is_duplicate
       /\ dedupOut.confidence = 95
       /\ dedupOut.reason = "Same phone number"
       /\ dedupOut.matching_provider_id = dedupIn.existing.id

\* C11 witness: the verdict on two records whose phones are written
\* differently and whose addresses carry different suite tokens.
SamePhoneIsDuplicateWitness ==
    /\ SamePhone
    /\ dedupOut # NoCall
    /\ dedupIn.new.phone # dedupIn.existing.phone
    /\ dedupIn.new.address = addr_ste
    /\ dedupIn.existing.address_full = addr_hash

\* ------------------------------------------------------------------------
\* Properties of the web researcher
\* ------------------------------------------------------------------------

\* Where the suite or unit designation of an address starts: a '#', or one
\* of the words suite, ste, unit at the start of a word
UnitStartsAt(s, p) ==
    \/ s[p] = "#"
    \/ /\ p = 1 \/ s[p - 1] = " "
       /\ \E k \in 1..3 : HasPrefixAt(s, p, UnitTokens[k] \o <<" ">>)

\* The street part of an address: what precedes its suite or unit designation
StreetOf(address) ==
    LET s == Lower(address)
        starts == {p \in 1..Len(s) : UnitStartsAt(s, p)}
    IN  IF starts = {} THEN Strip(s)
        ELSE Strip(SubSeq(s, 1, (CHOOSE p \in starts : \A q \in starts : p <= q) - 1))

\* C12: the researcher's deduplication compares addresses with their suite
\* and unit tokens removed: of the locations at one street address that
\* differ only in suite or unit number, _deduplicate_locations retains at
\* most one.
SuiteVariantsMerged ==
    (dedupIn.pc = "deduplicate" /\ dedupOut # NoCall /\ dedupOut.outcome = "return")
    => \A i, j \in DOMAIN dedupOut.value :
          i # j => StreetOf(dedupOut.value[i].address)
                       # StreetOf(dedupOut.value[j].address)

\* The unit number of an address: the digits of its suite or unit designation
UnitOf(address) ==
    LET s == Lower(address)
        starts == {p \in 1..Len(s) : UnitStartsAt(s, p)}
    IN  IF starts = {} THEN <<>>
        ELSE DigitsOnly(SubSeq(s, CHOOSE p \in starts : \A q \in starts : p <= q,
                               Len(s)))

\* Locations at one street address whose unit numbers and phones all differ
SuiteVariants(locations) ==
    /\ Len(locations) >= 2
    /\ \A i \in DOMAIN locations :
          locations[i].phone # NULL /\ UnitOf(locations[i].address) # <<>>
    /\ \A i, j \in DOMAIN locations :
          i # j => /\ StreetOf(locations[i].address) = StreetOf(locations[j].address)
                   /\ UnitOf(locations[i].address) # UnitOf(locations[j].address)
                   /\ DigitsOnly(locations[i].phone) # DigitsOnly(locations[j].phone)

\* C13: the legacy deduplicate_locations removes none of the locations that
\* are at the same street address with different suite or unit numbers and
\* different phones, for any input list.
LegacySuitesKept ==
    ( /\ dedupIn.pc = "legacy"
      /\ dedupOut # NoCall
      /\ dedupOut.outcome = "return"
      /\ SuiteVariants(dedupIn.locations) )
    => dedupOut.value = dedupIn.locations

\* ------------------------------------------------------------------------
\* Properties of the store's fuzzy tier
\* ------------------------------------------------------------------------

\* A search that returned
Searched == "op" \in DOMAIN storeOut /\ storeOut.op = "search" /\ storeOut.outcome = "ok"

\* The matches of the returned search that come from the fuzzy tier
FuzzyMatches ==
    {i \in 1..Len(storeOut.results) : storeOut.results[i].match_type = "fuzzy"}

SimilarityOf(i) == FuzzyScore(storeOut.results[i].provider, storeOut.args.query)

\* The stored rows the fuzzy tier of the returned search had to rank
FuzzyCandidates ==
    {k \in 1..Len(storeOut.table) :
        /\ StateFilter(storeOut.table[k], storeOut.args.state)
        /\ CityFilter(storeOut.table[k], storeOut.args.city)
        /\ ParentFilter(storeOut.table[k], storeOut.args.parent_organization)
        /\ FuzzyScore(storeOut.table[k], storeOut.args.query) >= 5000}

FuzzyOrderedBothReturned ==
    /\ Searched
    /\ \E i, j \in FuzzyMatches : i < j /\ SimilarityOf(i) > SimilarityOf(j)

\* ------------------------------------------------------------------------
\* Properties of the stages that call the model
\* ------------------------------------------------------------------------

\* C16: a model call that fails or hands back malformed or non-JSON output
\* inside a pipeline stage is caught and the pipeline continues with the next
\* stage or a deterministic default: no query is ended by the model failure.
ModelFailureTolerated ==
    Returned => orch.raised \notin {ModelCallFailed, ReplyNotJson}

\* The matcher's model call failed after the interpreter and the store
\* lookup went through, and the query ended with the error result
ModelFailureEndsQuery ==
    /\ Returned
    /\ orch.raised = ModelCallFailed
    /\ Called("match")
    /\ ~Called("research")
    /\ ~result.success

\* ------------------------------------------------------------------------
\* Properties of research
\* ------------------------------------------------------------------------

\* A call of research that returned a result
Researched ==
    dedupIn.pc = "research" /\ dedupOut # NoCall /\ dedupOut.outcome = "return"

\* C17: every result of research() has confidence min(1.0, 0.5 + 0.2 if its
\* locations are non-empty + 0.2 if its registry records are non-empty + 0.1
\* if its warnings are empty), the result for a search without any source
\* URL included.
AdditiveConfidence ==
    Researched =>
        LET score == 50 + (IF dedupOut.value.locations # <<>> THEN 20 ELSE 0)
                        + (IF dedupOut.value.npi_records # <<>> THEN 20 ELSE 0)
                        + (IF dedupOut.value.warnings = <<>> THEN 10 ELSE 0)
        IN  dedupOut.value.confidence = IF score > 100 THEN 100 ELSE score

\* The same for the calls whose search found a source URL
AdditiveConfidenceWithUrls ==
    (Researched /\ dedupIn.urls # <<>>) =>
        LET score == 50 + (IF dedupOut.value.locations # <<>> THEN 20 ELSE 0)
                        + (IF dedupOut.value.npi_records # <<>> THEN 20 ELSE 0)
                        + (IF dedupOut.value.warnings = <<>> THEN 10 ELSE 0)
        IN  dedupOut.value.confidence = IF score > 100 THEN 100 ELSE score

\* The fetch of a URL fails: a request error at the first attempt, or a
\* timeout followed by anything but a page
FetchFails(attempts) ==
    \/ attempts[1] \in {"network", "status"}
    \/ attempts[1] = "timeout" /\ attempts[2] # "ok"

\* The URLs research reads, and those of them whose fetch goes through
UrlsRead == 1..(IF Len(dedupIn.urls) < 5 THEN Len(dedupIn.urls) ELSE 5)

RECURSIVE PagesFrom(_)
\* The locations on the pages of the read URLs from i on whose fetch goes
\* through, in the order of the URLs
PagesFrom(i) ==
    IF i \notin UrlsRead THEN <<>>
    ELSE IF FetchFails(dedupIn.urls[i].attempts) THEN PagesFrom(i + 1)
    ELSE dedupIn.urls[i].page.locations \o PagesFrom(i + 1)

\* No page that is fetched makes the extraction raise
PagesExtract ==
    \A i \in UrlsRead : \/ FetchFails(dedupIn.urls[i].attempts)
                         \/ dedupIn.urls[i].page.kind = "ok"

MatchOver == dedupIn.pc = "match" /\ dedupOut # NoCall /\ dedupIn.candidates # <<>>

\* What the deterministic pass makes of the call
RulePass ==
    _rule_based_matching(_expand_abbreviations(dedupIn.query),
                         dedupIn.candidates, dedupIn.location_filter)

\* C19: the matcher runs its deterministic pass first and asks the model
\* only when that pass yields no match at all: with a rule match the outcome
\* is the rule matches at or above the threshold whatever the model would
\* answer, without one and with a client it is the model's matches at or
\* above the threshold; matches below the threshold are never returned, so
\* the list is empty when neither pass reaches the threshold.
RulesBeforeModel ==
    (MatchOver /\ RulePass.outcome = "return") =>
        /\ dedupOut.outcome = "return" =>
              \A i \in 1..Len(dedupOut.value) :
                  dedupOut.value[i].confidence >= dedupIn.threshold
        /\ RulePass.value # <<>> =>
              /\ dedupOut.outcome = "return"
              /\ dedupOut.value = AtLeast(RulePass.value, dedupIn.threshold)
        /\ (RulePass.value = <<>> /\ dedupIn.llm_client) =>
              IF dedupOut.reply.kind = "raise" THEN dedupOut.outcome = "raise"
              ELSE IF dedupOut.reply.kind = "unparsable"
              THEN dedupOut.outcome = "return" /\ dedupOut.value = <<>>
              ELSE /\ dedupOut.outcome = "return"
                   /\ dedupOut.value = AtLeast(dedupOut.reply.matches,
                                               dedupIn.threshold)
        /\ (RulePass.value = <<>> /\ ~dedupIn.llm_client) =>
              dedupOut.outcome = "return" /\ dedupOut.value = <<>>

\* The deterministic pass found a match and the model, had it been asked,
\* would have failed: the rule matches are returned
RulesBeforeModelWitness ==
    /\ MatchOver
    /\ dedupIn.llm_client
    /\ RulePass.outcome = "return"
    /\ RulePass.value # <<>>
    /\ dedupOut.reply.kind = "raise"
    /\ dedupOut.outcome = "return"
    /\ dedupOut.value # <<>>

\* Neither pass reaches the threshold: the model's only match is below it
\* and the list is empty
NoForcedMatch ==
    /\ MatchOver
    /\ dedupIn.llm_client
    /\ RulePass.outcome = "return"
    /\ RulePass.value = <<>>
    /\ dedupOut.reply.kind = "matches"
    /\ dedupOut.reply.matches # <<>>
    /\ dedupOut.value = <<>>

\* ------------------------------------------------------------------------
\* Properties of the queries without a provider
\* ------------------------------------------------------------------------

\* The query in flight names no provider and its intent needs one (every
\* intent but list)
NoProviderQuery ==
    /\ "providers" \in DOMAIN orch.parsed
    /\ orch.parsed.providers = <<>>
    /\ orch.parsed.intent # "list"

\* The result is a clarification: no success, and a question
Clarifies ==
    /\ "success" \in DOMAIN result
    /\ ~result.success
    /\ result.execution_path = "clarification_needed"
    /\ result.providers = <<>>
    /\ Truthy(result.clarification_question)

\* C20: whenever no provider can be identified for a query whose intent
\* requires one, the query ends in a non-success clarification result that
\* carries a question, and no store lookup, store write, semantic match or
\* web research is performed for that query: every step of such a query
\* leaves the store as it is and calls nothing but interpret, and the step
\* after interpret returns the clarification.
NoProviderClarifies ==
    [][ /\ NoProviderQuery' =>
             /\ providers' = providers /\ nextId' = nextId /\ history' = history
             /\ orch'.calls = <<"interpret">>
             /\ Returned' => Clarifies'
        /\ (NoProviderQuery /\ orch.pc # "idle") => Returned' ]_vars

\* A search query without a provider and without a question from the
\* interpreter was answered with a clarification
NoProviderClarifiesWitness ==
    /\ Returned
    /\ NoProviderQuery
    /\ orch.parsed.intent = "search"
    /\ ~Truthy(orch.parsed.clarification_needed)
    /\ Clarifies
    /\ orch.calls = <<"interpret">>

\* ------------------------------------------------------------------------
\* Properties of the interpreter's reference resolution
\* ------------------------------------------------------------------------

\* An interpretation that returned
Interpreted ==
    dedupIn.pc = "interpret" /\ dedupOut # NoCall /\ dedupOut.outcome = "return"

\* The query holds a pronoun
HasPronoun ==
    AnyIn({<<"t", "h", "e", "i", "r">>, <<"t", "h", "e", "y">>,
           <<"t", "h", "e", "m">>}, Lower(dedupIn.user_query))

\* The provider names that turn k of the conversation mentions
Mentioned(k) ==
    {Title(PatternSearch(provider_patterns[p],
                         Lower(dedupIn.conversation_history[k].content))) :
        p \in {o \in 1..Len(provider_patterns) :
                 PatternSearch(provider_patterns[o],
                     Lower(dedupIn.conversation_history[k].content)) # NULL}}

\* The turns that mention a provider
MentioningTurns ==
    {k \in 1..Len(dedupIn.conversation_history) : Mentioned(k) # {}}

\* C21: a pronoun in the query resolves to the provider name mentioned in
\* the most recent conversation turn that mentions a provider; an older
\* mention is never chosen over a more recent one.
MostRecentMention ==
    (Interpreted /\ HasPronoun /\ MentioningTurns # {}) =>
        dedupOut.value.references_resolved.their \in
            Mentioned(CHOOSE k \in MentioningTurns :
                          \A o \in MentioningTurns : o <= k)

\* The same over the assistant turns only
MostRecentAssistantMention ==
    LET turns == {k \in MentioningTurns :
                     dedupIn.conversation_history[k].role = "assistant"}
    IN  (Interpreted /\ HasPronoun) =>
            IF turns = {}
            THEN dedupOut.value.references_resolved.their = MISSING
            ELSE dedupOut.value.references_resolved.their \in
                     Mentioned(CHOOSE k \in turns : \A o \in turns : o <= k)


\* A step in which process_query returns
QueryReturns ==
    /\ orch'.pc = "idle"
    /\ result' # NoCall
    /\ orch.pc # "idle" \/ queries' # queries

\* C22: after any sequence of process_query calls, a "that"/"this"
\* reference resolves against the most recent processed result of the
\* orchestrator: the result that references resolve against is the first
\* provider of the latest query that produced providers, a query that
\* produced none leaves it as it is, and it is nothing before any result
\* exists.
LastResultIsLatest ==
    /\ [](queries = 0 => last_result = NoProvider)
    /\ [][ QueryReturns =>
             IF "providers" \in DOMAIN result' /\ result'.providers # <<>>
             THEN last_result' = result'.providers[1]
             ELSE last_result' = last_result ]_vars

\* The same for the queries that the search cascade answers
LastResultIsLatestSearch ==
    [][ (QueryReturns /\ orch.pc \in {"search", "match", "research"}) =>
             IF "providers" \in DOMAIN result' /\ result'.providers # <<>>
             THEN last_result' = result'.providers[1]
             ELSE last_result' = last_result ]_vars

\* Without a last result "that" resolves to nothing, and with one it
\* resolves to the name of that result or to the words "last result"
ThatResolvesFromLastResult ==
    (Interpreted /\ AnyIn({<<"t", "h", "a", "t">>, <<"t", "h", "i", "s">>},
                          Lower(dedupIn.user_query))) =>
        dedupOut.value.references_resolved.that =
            IF dedupIn.last_result = NoProvider THEN MISSING
            ELSE RefName(dedupIn.last_result)


\* ------------------------------------------------------------------------
\* Properties of the enrichment pipeline's merge
\* ------------------------------------------------------------------------

Deduplicated ==
    /\ dedupOut.pc = "enrich"
    /\ "result" \in DOMAIN dedupOut
    /\ dedupOut.result.outcome = "return"

\* The number of fields of a record that hold a value
FilledCount(provider) ==
    Cardinality({f \in DOMAIN provider \ {"id", "dba_names"} :
                    Truthy(Field(provider, f))})
    + (IF provider.dba_names \in {NullArray, <<>>} THEN 0 ELSE 1)

\* The records of the input that the output no longer lists
Discarded ==
    {i \in 1..Len(dedupIn.healthcare_providers) :
        \A k \in 1..Len(dedupOut.result.value) :
            dedupOut.result.value[k].id # dedupIn.healthcare_providers[i].id}

\* The position in the output of the record that stands for the i-th input
PrimaryOf(i) ==
    CHOOSE k \in 1..Len(dedupOut.result.value) :
        AddressKey(dedupOut.result.value[k])
            = AddressKey(dedupIn.healthcare_providers[i])

NameKept(other, primary) ==
    \/ other.legal_name = primary.legal_name
    \/ /\ primary.dba_names # NullArray
       /\ other.legal_name \in Range(primary.dba_names)

\* C23: when providers are merged as duplicates the richer record is kept as
\* primary, the discarded record's name is the primary's legal name or one
\* of its aliases, and every field the discarded record has and the primary
\* lacks is present on the primary afterwards
NothingLostInMerge ==
    Deduplicated =>
        \A i \in Discarded :
            LET other == dedupIn.healthcare_providers[i]
                primary == dedupOut.result.value[PrimaryOf(i)]
                before == CHOOSE p \in Range(dedupIn.healthcare_providers) :
                              p.id = primary.id
            IN  /\ FilledCount(before) >= FilledCount(other)
                /\ NameKept(other, primary)
                /\ \A f \in DOMAIN other \ {"id", "legal_name", "dba_names"} :
                       Truthy(Field(other, f)) => Truthy(Field(primary, f))

\* What the merge does keep: the discarded record's name, and the fields
\* the merge fills
MergeKeepsNameAndFilledFields ==
    Deduplicated =>
        \A i \in Discarded :
            LET other == dedupIn.healthcare_providers[i]
                primary == dedupOut.result.value[PrimaryOf(i)]
            IN  /\ NameKept(other, primary)
                /\ \A f \in FilledFields :
                       Truthy(Field(other, f)) => Truthy(Field(primary, f))


\* ------------------------------------------------------------------------
\* Properties of the orchestrator's writes to the store
\* ------------------------------------------------------------------------

StoredIds(rows) == {rows[i].id : i \in 1..Len(rows)}

\* C24: no step of process_query, with any intent and with auto_save on or
\* off, deletes a provider record: every id in the store before the step is
\* in the store after it
ProcessQueryNeverDeletes ==
    [][StoredIds(providers) \subseteq StoredIds(providers')]_vars

\* A query has written to a store that held records before
ProcessQueryNeverDeletesWitness ==
    /\ orch.pc = "idle"
    /\ queries > 0
    /\ "execution_path" \in DOMAIN result
    /\ result.success
    /\ result.intent \in {"add", "search"}
    /\ nextId > 2
    /\ Len(providers) >= 2
    /\ \E i \in 1..Len(providers) : providers[i].id = nextId - 1


\* ------------------------------------------------------------------------
\* Properties of the semantic stage's result
\* ------------------------------------------------------------------------

SemanticAnswer ==
    /\ "execution_path" \in DOMAIN result
    /\ result.execution_path = "semantic_match"

\* C25: when a query is answered by the semantic stage, each provider of
\* the result is the stored record the corresponding semantic match selected:
\* its id is the match's record id
SemanticResultIsMatchedRecord ==
    SemanticAnswer =>
        /\ Len(result.providers) = Len(orch.semantic_matches)
        /\ \A i \in 1..Len(result.providers) :
               result.providers[i].id = orch.semantic_matches[i].provider_id

\* What the semantic stage reports instead: for every match the first record
\* of the unfiltered listing of the store
SemanticResultIsFirstListed ==
    SemanticAnswer =>
        \A i \in 1..Len(result.providers) :
            result.providers[i]
                = _list_providers(providers, NULL, NULL, NULL, 10)[1].provider


\* ------------------------------------------------------------------------
\* Properties of concurrent history-tracked updates
\* ------------------------------------------------------------------------

NoClientInFlight == \A p \in Clients : uwh[p].pc = "idle"

\* The history entries of one field of one record, oldest first
EntriesOf(id, f) ==
    SelectSeq(history, LAMBDA e : e.provider_id = id /\ e.field_name = f)

Chained(id, f) ==
    LET es == EntriesOf(id, f)
        row == providers[CHOOSE i \in RowIndex(providers, id) : TRUE]
    IN  es # <<>> =>
            /\ \A k \in 1..(Len(es) - 1) : es[k].new_value = es[k + 1].old_value
            /\ es[Len(es)].new_value = row[f]

\* C26: for any interleaving of concurrent history-tracked updates of one
\* field of one record the entries form a consistent chain: each entry's new
\* value is the next entry's old value and the newest entry's new value is
\* the stored field value
ConcurrentHistoryChain ==
    NoClientInFlight =>
        \A i \in 1..Len(providers), f \in {"legal_name", "phone"} :
            Chained(providers[i].id, f)

\* Without two calls in flight at once the entries do form the chain
SequentialHistoryChain ==
    (NoClientInFlight /\ Overlap \notin uwhLog) =>
        \A i \in 1..Len(providers), f \in {"legal_name", "phone"} :
            Chained(providers[i].id, f)


\* ------------------------------------------------------------------------
\* Properties of the ADD intent's duplicate check
\* ------------------------------------------------------------------------

\* The store lookup _handle_add_intent performs for the duplicate check
AddLookup ==
    search(providers, Get(orch.parsed.providers[1], "name", <<>>),
           NULL, NULL, NULL, Get(orch.parsed.providers[1], "phone", NULL),
           NULL, TRUE, 5)

\* The resolver's rules judge the provider a duplicate of the record
JudgedDuplicate(new, existing) ==
    LET Duplicate(r) == r.outcome = "return" /\ r.is_duplicate
    IN  Duplicate(_rule_based_deduplication(new, existing))

AddHandled ==
    /\ orch.pc = "add"
    /\ orch'.pc = "idle"
    /\ orch.parsed.providers # <<>>

\* C27: an ADD query never writes to the store when the resolver judges the
\* provider a duplicate of any record the lookup for the duplicate check
\* returned: the store is left unchanged and the result is non-success
AddDuplicateOfAnyLeavesStore ==
    [][(AddHandled /\ \E k \in 1..Len(AddLookup) :
            JudgedDuplicate(orch.parsed.providers[1], AddLookup[k].provider))
         => (providers' = providers /\ ~result'.success)]_vars

\* What does hold: a duplicate of the FIRST record of the lookup is not added
AddDuplicateOfFirstLeavesStore ==
    [][(AddHandled /\ AddLookup # <<>>
          /\ JudgedDuplicate(orch.parsed.providers[1], AddLookup[1].provider))
         => (providers' = providers /\ ~result'.success)]_vars


\* ------------------------------------------------------------------------
\* Properties of the listing tier of search
\* ------------------------------------------------------------------------

ListingReturned ==
    /\ Searched
    /\ \E i \in 1..Len(storeOut.results) : storeOut.results[i].match_type = "list"

\* C28: search returns listing results only when no text query was
\* supplied; with a text query no unmatched listing result is returned
ListingOnlyWithoutQuery ==
    ListingReturned => ~Truthy(storeOut.args.query)

\* What does hold: listing results come without a text query, or with a text
\* query that matched nothing when fuzzy matching is switched off
ListingOnlyWithoutQueryOrFuzzy ==
    ListingReturned =>
        \/ ~Truthy(storeOut.args.query)
        \/ /\ ~storeOut.args.fuzzy
           /\ _search_exact(storeOut.table, storeOut.args.query,
                            storeOut.args.state, storeOut.args.city,
                            storeOut.args.parent_organization) = <<>>
           /\ _search_fulltext(storeOut.table, storeOut.args.query,
                               storeOut.args.state, storeOut.args.city) = <<>>


\* ------------------------------------------------------------------------
\* Properties of auto_save
\* ------------------------------------------------------------------------

\* A step of a search-type query: one of its stages, or its interpretation
SearchQueryStep ==
    \/ orch.pc \in {"search", "match", "research"}
    \/ orch.pc = "idle" /\ queries' = queries + 1
         /\ orch'.pc \notin {"add", "compare", "list"}

\* C29: with auto_save disabled a search-type query never writes to the
\* store: no provider record is added or changed, and the locations web
\* research found are returned as they were found, without a store id
NoWriteWithoutAutoSave ==
    [][(~config.auto_save /\ SearchQueryStep) =>
          /\ providers' = providers
          /\ nextId' = nextId
          /\ (orch.pc = "research" /\ result'.success) =>
                /\ result'.providers # <<>>
                /\ \A i \in 1..Len(result'.providers) :
                       Get(result'.providers[i], "id", NULL) = NULL]_vars

\* Web research has found locations with auto_save disabled
NoWriteWithoutAutoSaveWitness ==
    /\ ~config.auto_save
    /\ orch.pc = "idle"
    /\ "execution_path" \in DOMAIN result
    /\ result.execution_path = "web_research"
    /\ result.success
    /\ result.providers # <<>>


\* ------------------------------------------------------------------------
\* Properties of steps_executed
\* ------------------------------------------------------------------------

\* The fixed stage order and the call that invokes each stage
StageOrder == <<"Step 1", "Step 2", "Step 3", "Step 4">>
StageCall == <<"interpret", "search", "match", "research">>
StagePath == <<"clarification_needed", "database_hit", "semantic_match",
               "web_research">>

\* process_query has returned the result of a search-type query
SearchResultReturned ==
    /\ orch.pc = "idle"
    /\ "steps_executed" \in DOMAIN result
    /\ result.intent \notin {"add", "compare", "list"}

StepsArePrefix ==
    /\ result.steps_executed # <<>>
    /\ Len(result.steps_executed) <= Len(StageOrder)
    /\ result.steps_executed = SubSeq(StageOrder, 1, Len(result.steps_executed))

AnsweringStageIsLast ==
    \A k \in 2..Len(StageOrder) :
        result.execution_path = StagePath[k]
            => result.steps_executed[Len(result.steps_executed)] = StageOrder[k]

\* C30: in every result of a search-type query steps_executed is a prefix of
\* the fixed stage order, each listed stage was actually invoked, and the
\* stage reported as having answered the query is the last stage listed
ListedStagesWereInvoked ==
    SearchResultReturned =>
        /\ StepsArePrefix
        /\ \A k \in 1..Len(result.steps_executed) :
               StageCall[k] \in Range(orch.calls)
        /\ AnsweringStageIsLast

\* What does hold: the prefix and the answering stage
StepsPrefixAndAnswer ==
    SearchResultReturned => StepsArePrefix /\ AnsweringStageIsLast

====
